---- MODULE Spec2Model ----
(***************************************************************************)
(* ExpenseAccountMatcher (firefly-iii-categorizer): the expense-account    *)
(* resolution engine.  Texts are sequences of one-character strings, so    *)
(* the normaliser, the placeholder detector and the query generator are    *)
(* computed character by character as the JavaScript regular expressions   *)
(* compute them.  JavaScript values are tagged records.                    *)
(***************************************************************************)
EXTENDS Integers, Sequences, FiniteSets, TLC

(***************************************************************************)
(* JavaScript values                                                       *)
(***************************************************************************)
JsUndef == [t |-> "undefined"]
JsNull == [t |-> "null"]
JsNum(n) == [t |-> "number", n |-> n]
JsStr(s) == [t |-> "string", s |-> s]
\* a string whose characters the code never inspects (decision, source, id)
JsTok(a) == [t |-> "string", a |-> a]
JsArr == [t |-> "array"]
JsObj(f) == [t |-> "object", f |-> f]

IsStr(v) == v.t = "string"
IsNullish(v) == v.t \in {"undefined", "null"}
\* typeof v === "object" && v (a truthy value whose typeof is "object")
IsObjectLike(v) == v.t \in {"object", "array"}
\* !v for the values of the model
Falsy(v) ==
    \/ IsNullish(v)
    \/ v = JsStr(<<>>)
    \/ (v.t = "number" /\ v.n = 0)
\* property read v.name: an array parsed from JSON has none of the named fields
Field(v, name) ==
    IF v.t = "object" /\ name \in DOMAIN v.f THEN v.f[name] ELSE JsUndef
\* a ?? b
Coalesce(a, b) == IF IsNullish(a) THEN b ELSE a

(***************************************************************************)
(* Characters                                                              *)
(***************************************************************************)
LowerSeq == << "a", "b", "c", "d", "e", "f", "g", "h", "i", "j", "k", "l", "m",
               "n", "o", "p", "q", "r", "s", "t", "u", "v", "w", "x", "y", "z" >>
UpperSeq == << "A", "B", "C", "D", "E", "F", "G", "H", "I", "J", "K", "L", "M",
               "N", "O", "P", "Q", "R", "S", "T", "U", "V", "W", "X", "Y", "Z" >>
\* precomposed accented letters of the model's alphabet and the base letter
\* that NFD decomposition followed by removal of U+0300..U+036F leaves
AccentSeq == << "é", "ó", "ñ", "É" >>
AccentBase == << "e", "o", "n", "E" >>
Digits == {"0", "1", "2", "3", "4", "5", "6", "7", "8", "9"}
LowerLetters == {LowerSeq[i] : i \in DOMAIN LowerSeq}
UpperLetters == {UpperSeq[i] : i \in DOMAIN UpperSeq}
\* \s and \w of the regular expressions, on the model's alphabet
IsSpace(c) == c \in {" ", "\t"}
IsWordChar(c) == c \in LowerLetters \cup UpperLetters \cup Digits \cup {"_"}

StripDiacritic(c) ==
    IF \E i \in DOMAIN AccentSeq : AccentSeq[i] = c
    THEN AccentBase[CHOOSE i \in DOMAIN AccentSeq : AccentSeq[i] = c]
    ELSE c
ToLowerChar(c) ==
    IF c = "É" THEN "é"
    ELSE IF \E i \in DOMAIN UpperSeq : UpperSeq[i] = c
    THEN LowerSeq[CHOOSE i \in DOMAIN UpperSeq : UpperSeq[i] = c]
    ELSE c

(***************************************************************************)
(* String helpers                                                          *)
(***************************************************************************)
\* s.normalize("NFD").replace(/[\u0300-\u036f]/g, "")
StripDiacritics(s) == [i \in DOMAIN s |-> StripDiacritic(s[i])]
ToLowerCase(s) == [i \in DOMAIN s |-> ToLowerChar(s[i])]

RECURSIVE TrimLeft(_)
TrimLeft(s) ==
    IF s # <<>> /\ IsSpace(Head(s)) THEN TrimLeft(Tail(s)) ELSE s
RECURSIVE TrimRight(_)
TrimRight(s) ==
    IF s # <<>> /\ IsSpace(s[Len(s)]) THEN TrimRight(SubSeq(s, 1, Len(s) - 1)) ELSE s
Trim(s) == TrimRight(TrimLeft(s))

\* s.replace(/[...]/g, "") for a character class given as a set
RemoveChars(s, class) == SelectSeq(s, LAMBDA c : c \notin class)

\* s.replace(/\s+/g, " ")
RECURSIVE CollapseSpaces(_)
CollapseSpaces(s) ==
    IF s = <<>> THEN <<>>
    ELSE IF IsSpace(Head(s))
         THEN <<" ">> \o CollapseSpaces(TrimLeft(s))
         ELSE <<Head(s)>> \o CollapseSpaces(Tail(s))

\* array.join(" ")
RECURSIVE JoinSpace(_)
JoinSpace(words) ==
    IF words = <<>> THEN <<>>
    ELSE IF Len(words) = 1 THEN words[1]
    ELSE words[1] \o <<" ">> \o JoinSpace(Tail(words))

\* s.split(/\s+/): the maximal runs of non-space characters, with the empty
\* strings a leading or trailing space run yields
RECURSIVE SplitSpaces(_, _)
SplitSpaces(s, cur) ==
    IF s = <<>> THEN <<cur>>
    ELSE IF IsSpace(Head(s))
         THEN <<cur>> \o SplitSpaces(TrimLeft(s), <<>>)
         ELSE SplitSpaces(Tail(s), Append(cur, Head(s)))

\* Array.from(new Set(xs)): first occurrences, in order
RECURSIVE Unique(_, _)
Unique(xs, seen) ==
    IF xs = <<>> THEN <<>>
    ELSE IF Head(xs) \in seen THEN Unique(Tail(xs), seen)
    ELSE <<Head(xs)>> \o Unique(Tail(xs), seen \cup {Head(xs)})

\* s.substring(i - 1, i - 1 + Len(lit)) === lit
LiteralAt(s, i, lit) ==
    /\ i + Len(lit) - 1 <= Len(s)
    /\ SubSeq(s, i, i + Len(lit) - 1) = lit
\* \b between s[i-1] and s[i] (1-based; i = 1 and i = Len(s) + 1 are the ends)
BoundaryAt(s, i) ==
    (i > 1 /\ IsWordChar(s[i - 1])) # (i <= Len(s) /\ IsWordChar(s[i]))
RECURSIVE DigitRun(_, _)
DigitRun(s, i) ==
    IF i <= Len(s) /\ s[i] \in Digits THEN 1 + DigitRun(s, i + 1) ELSE 0
RECURSIVE SpaceRun(_, _)
SpaceRun(s, i) ==
    IF i <= Len(s) /\ IsSpace(s[i]) THEN 1 + SpaceRun(s, i + 1) ELSE 0
(***************************************************************************)
(* Placeholder detector                                                    *)
(***************************************************************************)
PLACEHOLDER_VALUES == {
    <<>>,
    <<"n", "o", " ", "n", "a", "m", "e">>,
    <<"s", "i", "n", " ", "n", "o", "m", "b", "r", "e">>,
    <<"u", "n", "k", "n", "o", "w", "n">>,
    <<"d", "e", "s", "c", "o", "n", "o", "c", "i", "d", "o">> }

\* #isPlaceholder(text), for text undefined, null or a string
isPlaceholder(text) ==
    IF IsNullish(text) THEN TRUE
    ELSE \E normalized \in {Trim(ToLowerCase(StripDiacritics(text.s)))} :
             IF Len(normalized) = 0 THEN TRUE
             ELSE \E stripped \in
                      {Trim(CollapseSpaces(
                          RemoveChars(normalized,
                                      {"(", ")", "[", "]", "{", "}", "\"", "'"})))} :
                      Len(stripped) = 0 \/ stripped \in PLACEHOLDER_VALUES

(***************************************************************************)
(* Text normaliser                                                         *)
(***************************************************************************)
genericPhrases == <<
    <<"g", "o", "o", "g", "l", "e", " ", "p", "a", "y">>,
    <<"a", "p", "p", "l", "e", " ", "p", "a", "y">>,
    <<"c", "o", "m", "p", "r", "a", " ", "e", "n">>,
    <<"c", "o", "m", "p", "r", "a", "s", " ", "e", "n">>,
    <<"c", "o", "n", " ", "l", "a", " ", "t", "a", "r", "j", "e", "t", "a">>,
    <<"t", "a", "r", "j", "e", "t", "a">> >>

stopWords == {
    <<"c", "o", "n">>,
    <<"e", "n">>,
    <<"p", "o", "r">>,
    <<"p", "a", "r", "a">>,
    <<"u", "n", "a">>,
    <<"u", "n">>,
    <<"y">>,
    <<"e", "l">>,
    <<"l", "a">>,
    <<"l", "o", "s">>,
    <<"l", "a", "s">>,
    <<"d", "e">>,
    <<"d", "e", "l">>,
    <<"a", "l">>,
    <<"c", "o", "m", "p", "r", "a">>,
    <<"c", "o", "m", "p", "r", "a", "s">>,
    <<"t", "a", "r", "j", "e", "t", "a">>,
    <<"b", "a", "n", "c", "o">>,
    <<"p", "a", "g", "o">>,
    <<"g", "o", "o", "g", "l", "e">>,
    <<"p", "a", "y">>,
    <<"a", "p", "p", "l", "e">> }

\* end position (exclusive) of words[1] \s+ words[2] \s+ ... at i, or 0
RECURSIVE PhraseEnd(_, _, _)
PhraseEnd(s, i, words) ==
    IF ~LiteralAt(s, i, words[1]) THEN 0
    ELSE IF Len(words) = 1 THEN i + Len(words[1])
    ELSE IF SpaceRun(s, i + Len(words[1])) = 0 THEN 0
    ELSE PhraseEnd(s, i + Len(words[1]) + SpaceRun(s, i + Len(words[1])), Tail(words))

\* length of the match of a pattern at position i of s, 0 when it does not match:
\*   date    /\b\d{4}-\d{2}-\d{2}\b/
\*   digits  /\b\d{4,}\b/
\*   phrase  new RegExp(`\\b${phrase.replace(/\s+/g, "\\s+")}\\b`)
\* the match is the n characters from i when a \b follows them
BoundedRun(s, i, n, least) ==
    IF n >= least /\ BoundaryAt(s, i + n) THEN n ELSE 0
MatchLen(pat, s, i) ==
    IF ~BoundaryAt(s, i) THEN 0
    ELSE IF pat.k = "date"
    THEN IF /\ i + 9 <= Len(s)
            /\ \A d \in {0, 1, 2, 3, 5, 6, 8, 9} : s[i + d] \in Digits
            /\ s[i + 4] = "-" /\ s[i + 7] = "-"
         THEN BoundedRun(s, i, 10, 10) ELSE 0
    ELSE IF pat.k = "digits"
    THEN BoundedRun(s, i, DigitRun(s, i), 4)
    ELSE BoundedRun(s, i, PhraseEnd(s, i, SplitSpaces(pat.p, <<>>)) - i, 1)

\* s.replace(pattern /g, " ")
RECURSIVE ReplaceAllWithSpace(_, _, _)
ReplaceAllWithSpace(pat, s, i) ==
    IF i > Len(s) THEN <<>>
    ELSE IF MatchLen(pat, s, i) > 0
    THEN <<" ">> \o ReplaceAllWithSpace(pat, s, i + MatchLen(pat, s, i))
    ELSE <<s[i]>> \o ReplaceAllWithSpace(pat, s, i + 1)

\* genericPhrases.forEach(phrase => simplified = simplified.replace(pattern, " "))
RECURSIVE RemovePhrases(_, _)
RemovePhrases(s, phrases) ==
    IF phrases = <<>> THEN s
    ELSE RemovePhrases(
             ReplaceAllWithSpace([k |-> "phrase", p |-> Head(phrases)], s, 1),
             Tail(phrases))

EmptyInfo == [normalizedText |-> <<>>, tokens |-> <<>>]

\* #normalizeText(input)
\* simplified.replace(/[^a-z\s]/g, " ")
KeepLettersAndSpaces(c) == IF c \in LowerLetters \/ IsSpace(c) THEN c ELSE " "
ReplaceNonLetters(s) == [i \in DOMAIN s |-> KeepLettersAndSpaces(s[i])]
\* .map(token => token.trim())
TrimEach(parts) == [i \in DOMAIN parts |-> Trim(parts[i])]
\* .filter(token => token.length > 1 && !stopWords.has(token) && !/^\d+$/.test(token))
KeepToken(token) ==
    /\ Len(token) > 1
    /\ token \notin stopWords
    /\ \E j \in DOMAIN token : token[j] \notin Digits
\* { normalizedText: uniqueTokens.join(" "), tokens: uniqueTokens }
InfoOf(uniqueTokens) ==
    [normalizedText |-> JoinSpace(uniqueTokens), tokens |-> uniqueTokens]
\* the stages of the normaliser, innermost first: lower-cased and stripped of
\* diacritics, dates removed, long digit runs removed, generic phrases removed,
\* non-letters replaced, split, trimmed, filtered, deduplicated
normalizeText(input) ==
    IF Falsy(input) \/ ~IsStr(input) THEN EmptyInfo
    ELSE IF isPlaceholder(input) THEN EmptyInfo
    ELSE InfoOf(Unique(
             SelectSeq(
                 TrimEach(SplitSpaces(
                     ReplaceNonLetters(
                         RemovePhrases(
                             ReplaceAllWithSpace([k |-> "digits"],
                                 ReplaceAllWithSpace([k |-> "date"],
                                     ToLowerCase(StripDiacritics(input.s)), 1), 1),
                             genericPhrases)),
                     <<>>)),
                 KeepToken),
             {}))

(***************************************************************************)
(* Query generator and cache key                                           *)
(***************************************************************************)
\* #generateQueries(transaction, descriptionInfo, destinationInfo)
\* tokens.filter(token => token.length > 3)
LongToken(token) == Len(token) > 3
\* .filter(query => query.length > 0)
NonEmpty(query) == Len(query) > 0
\* the queries.add calls, in order
AddedQueries(dest, descInfo, destInfo) ==
    (IF ~Falsy(dest) /\ ~isPlaceholder(dest) THEN <<Trim(dest.s)>> ELSE <<>>)
    \o (IF destInfo.normalizedText # <<>> THEN <<destInfo.normalizedText>> ELSE <<>>)
    \o (IF descInfo.normalizedText # <<>> THEN <<descInfo.normalizedText>> ELSE <<>>)
    \o (IF Len(descInfo.tokens) >= 3
        THEN <<JoinSpace(SubSeq(descInfo.tokens, 1, 3))>> ELSE <<>>)
    \o (IF Len(descInfo.tokens) >= 2
        THEN <<JoinSpace(SubSeq(descInfo.tokens, 1, 2))>> ELSE <<>>)
    \o SelectSeq(descInfo.tokens, LongToken)
    \o SelectSeq(destInfo.tokens, LongToken)
\* the same from an array instead of a Set: a query added twice stays twice
QueriesWithRepeats(transaction, descInfo, destInfo) ==
    SelectSeq(
        TrimEach(AddedQueries(Field(transaction, "destination_name"), descInfo, destInfo)),
        NonEmpty)
generateQueries(transaction, descInfo, destInfo) ==
    SelectSeq(
        TrimEach(Unique(
            AddedQueries(Field(transaction, "destination_name"), descInfo, destInfo),
            {})),
        NonEmpty)

\* #buildCacheKey(descriptionText, destinationText)
buildCacheKey(descriptionText, destinationText) ==
    descriptionText \o <<":", ":">> \o destinationText
(***************************************************************************)
(* Deterministic matcher                                                   *)
(***************************************************************************)
\* Math.ceil(n / 2)
CeilHalf(n) == (n + 1) \div 2
Max(a, b) == IF a >= b THEN a ELSE b
Min(S) == CHOOSE x \in S : \A y \in S : x <= y
SeqToSet(xs) == {xs[i] : i \in DOMAIN xs}

\* #attemptDeterministicMatch(candidates, descriptionTokens, destinationTokens):
\* the matched candidate, or JsNull
\* the first candidate whose index is in the set, or null
FirstOf(candidates, crossing) ==
    IF crossing = {} THEN JsNull ELSE candidates[Min(crossing)]
\* the same, preferring the candidate with the largest overlap among those
\* that reach the threshold
FindBestMatch(candidates, targetTokens) ==
    LET overlap(i) ==
            Cardinality(targetTokens
                \cap SeqToSet(normalizeText(Field(candidates[i], "name")).tokens))
        crossing ==
            {i \in DOMAIN candidates :
                /\ ~Falsy(Field(candidates[i], "name"))
                /\ overlap(i) >= Max(1, CeilHalf(Cardinality(targetTokens)))}
    IN  FirstOf(candidates, {i \in crossing : \A j \in crossing : overlap(i) >= overlap(j)})

\* candidates.find(candidate => ... matches >= minimumMatches)
FindMatch(candidates, targetTokens) ==
    FirstOf(candidates,
        {i \in DOMAIN candidates :
            /\ ~Falsy(Field(candidates[i], "name"))
            /\ Cardinality(targetTokens
                   \cap SeqToSet(normalizeText(Field(candidates[i], "name")).tokens))
               >= Max(1, CeilHalf(Cardinality(targetTokens)))})
\* the same without the single-candidate branch: one candidate has to reach
\* the overlap threshold like any other
MatchByOverlapOnly(candidates, descriptionTokens, destinationTokens) ==
    IF Len(candidates) = 0 THEN JsNull
    ELSE FindMatch(candidates,
                   SeqToSet(descriptionTokens) \cup SeqToSet(destinationTokens))
attemptDeterministicMatch(candidates, descriptionTokens, destinationTokens) ==
    IF Len(candidates) = 0 THEN JsNull
    ELSE IF Len(candidates) = 1
    THEN IF isPlaceholder(Field(candidates[1], "name")) THEN JsNull ELSE candidates[1]
    ELSE FindMatch(candidates,
                   SeqToSet(descriptionTokens) \cup SeqToSet(destinationTokens))

(***************************************************************************)
(* The matcher variant listed in the README: lenient deterministic matcher *)
(***************************************************************************)
\* targetTokens.size > 10 ? Math.max(1, Math.floor(size / 4))
\*                        : Math.max(1, Math.ceil(size / 2))
LenientMinimumMatches(n) == IF n > 10 THEN Max(1, n \div 4) ELSE Max(1, CeilHalf(n))
\* [...targetTokens].filter(token => candidateTokens.has(token)).length
Matches(targetTokens, candidate) ==
    Cardinality(targetTokens
        \cap SeqToSet(normalizeText(Field(candidate, "name")).tokens))
\* the same, replacing the best candidate also by one that shares as many
\* tokens
RECURSIVE LenientLoopLastBest(_, _, _, _, _)
LenientLoopLastBest(candidates, n, targetTokens, bestMatch, bestMatchCount) ==
    IF n > Len(candidates)
    THEN IF bestMatchCount > 0 THEN bestMatch ELSE JsNull
    ELSE IF Falsy(Field(candidates[n], "name"))
    THEN LenientLoopLastBest(candidates, n + 1, targetTokens, bestMatch, bestMatchCount)
    ELSE IF Matches(targetTokens, candidates[n])
                >= LenientMinimumMatches(Cardinality(targetTokens))
    THEN candidates[n]
    ELSE IF Matches(targetTokens, candidates[n]) >= bestMatchCount
    THEN LenientLoopLastBest(candidates, n + 1, targetTokens, candidates[n],
                             Matches(targetTokens, candidates[n]))
    ELSE LenientLoopLastBest(candidates, n + 1, targetTokens, bestMatch, bestMatchCount)
\* the loop over the candidates from the n-th on, and the return after it
RECURSIVE LenientLoop(_, _, _, _, _)
LenientLoop(candidates, n, targetTokens, bestMatch, bestMatchCount) ==
    IF n > Len(candidates)
    THEN IF bestMatchCount > 0 THEN bestMatch ELSE JsNull
    ELSE IF Falsy(Field(candidates[n], "name"))
    THEN LenientLoop(candidates, n + 1, targetTokens, bestMatch, bestMatchCount)
    ELSE IF Matches(targetTokens, candidates[n])
                >= LenientMinimumMatches(Cardinality(targetTokens))
    THEN candidates[n]
    ELSE IF Matches(targetTokens, candidates[n]) > bestMatchCount
    THEN LenientLoop(candidates, n + 1, targetTokens, candidates[n],
                     Matches(targetTokens, candidates[n]))
    ELSE LenientLoop(candidates, n + 1, targetTokens, bestMatch, bestMatchCount)
\* #attemptDeterministicMatch(candidates, descriptionTokens, destinationTokens)
\* of the README listing
attemptDeterministicMatchLenient(candidates, descriptionTokens, destinationTokens) ==
    IF Len(candidates) = 0 THEN JsNull
    ELSE IF Len(candidates) = 1
    THEN IF isPlaceholder(Field(candidates[1], "name")) THEN JsNull ELSE candidates[1]
    ELSE LenientLoop(candidates, 1,
                     SeqToSet(descriptionTokens) \cup SeqToSet(destinationTokens),
                     JsNull, 0)

(***************************************************************************)
(* AI response parsing and validation                                      *)
(*                                                                         *)
(* A completion is a non-string value or a text, and a text is a sequence  *)
(* of chunks: a whitespace run, a ```json or ``` fence, prose without      *)
(* braces or fences, the serialisation of a JSON value v, or a {...} run   *)
(* that is not JSON.                                                       *)
(***************************************************************************)
Ws == [k |-> "ws"]
FenceJson == [k |-> "fencejson"]
Fence == [k |-> "fence"]
Prose == [k |-> "prose"]
Braces == [k |-> "braces"]
Json(v) == [k |-> "json", v |-> v]
Text(chunks) == [t |-> "text", chunks |-> chunks]

\* the chunk holds a "{" and a "}"
HasBraces(c) == c.k = "braces" \/ (c.k = "json" /\ c.v.t = "object")

RECURSIVE DropWsLeft(_)
DropWsLeft(cs) == IF cs # <<>> /\ Head(cs).k = "ws" THEN DropWsLeft(Tail(cs)) ELSE cs
RECURSIVE DropWsRight(_)
DropWsRight(cs) ==
    IF cs # <<>> /\ cs[Len(cs)].k = "ws"
    THEN DropWsRight(SubSeq(cs, 1, Len(cs) - 1)) ELSE cs
TrimChunks(cs) == DropWsRight(DropWsLeft(cs))

\* cleaned.replace(/```\s*$/, "")
EndsWithFence(body) == body # <<>> /\ body[Len(body)].k = "fence"
DropTrailingFence(cs) ==
    IF EndsWithFence(DropWsRight(cs))
    THEN SubSeq(DropWsRight(cs), 1, Len(DropWsRight(cs)) - 1) ELSE cs

\* #isValidResponse(data)
isValidResponse(data) ==
    LET account == Field(data, "account")
        name == Field(account, "name")
    IN  /\ IsObjectLike(data)
        /\ Field(data, "decision") \in {JsTok("existing"), JsTok("create")}
        /\ IsObjectLike(account)
        /\ IsStr(name)
        /\ Len(Trim(name.s)) > 0
        /\ \/ Field(data, "decision") = JsTok("existing")
           \/ IsStr(Field(account, "description"))

\* #parseResponse(responseText): [ok |-> TRUE, value |-> parsed], or
\* [ok |-> FALSE, error |-> message] when it throws
\* if (cleaned.startsWith("```")) strip the opening and the closing fence
StripFences(trimmed) ==
    IF trimmed # <<>> /\ Head(trimmed).k \in {"fencejson", "fence"}
    THEN DropTrailingFence(DropWsLeft(Tail(trimmed)))
    ELSE trimmed
\* cleaned.substring(firstBrace, lastBrace + 1) when both braces are found
BetweenBraces(cleaned, braces) ==
    IF braces # {}
    THEN SubSeq(cleaned, Min(braces), CHOOSE i \in braces : \A j \in braces : i >= j)
    ELSE cleaned
ExtractJson(cleaned) ==
    BetweenBraces(cleaned, {i \in DOMAIN cleaned : HasBraces(cleaned[i])})
\* JSON.parse(jsonStr) and the validation of what it gives
ParseJson(body) ==
    IF body = <<>>
    THEN [ok |-> FALSE, error |-> "No JSON found in AI response"]
    ELSE IF ~(Len(body) = 1 /\ body[1].k = "json")
    THEN [ok |-> FALSE, error |-> "Failed to parse AI response: SyntaxError"]
    ELSE IF ~isValidResponse(body[1].v)
    THEN [ok |-> FALSE,
          error |-> "Failed to parse AI response: Invalid response structure from AI"]
    ELSE [ok |-> TRUE, value |-> body[1].v]
parseResponse(responseText) ==
    IF responseText.t # "text" \/ responseText.chunks = <<>>
    THEN [ok |-> FALSE, error |-> "Empty or invalid response from AI"]
    ELSE ParseJson(TrimChunks(ExtractJson(StripFences(TrimChunks(responseText.chunks)))))
(***************************************************************************)
(* Inputs: the transactions callers pass, the answers of the ledger's      *)
(* account search and the completions of the AI backend                    *)
(***************************************************************************)
MaxCalls == 3

Txn(description, destination) ==
    JsObj([description |-> description, destination_name |-> destination])
\* a transaction whose queries are "bp" and, after it, the placeholder "unknown"
PlaceholderLast ==
    Txn(JsStr(<<"u", "n", "k", "n", "o", "w", "n", " ", "1", "2", "3", "4">>),
        JsStr(<<"b", "p">>))
Transactions == {
    JsNull,
    Txn(JsUndef, JsStr(<<"C", "a", "f", "e">>)),
    Txn(JsStr(<<>>), JsNull),
    Txn(JsStr(<<"c", "o", "m", "p", "r", "a", " ", "e", "n", " ", "C", "a", "f", "é", " ", "1", "2", "3", "4">>), JsStr(<<"C", "a", "f", "e">>)),
    Txn(JsStr(<<"c", "a", "f", "e">>), JsStr(<<" ", "c", "a", "f", "e", " ">>)),
    Txn(JsStr(<<"u", "n", "k", "n", "o", "w", "n", " ", "1", "2", "3", "4">>), JsNull),
    Txn(JsStr(<<"u", "n", "k", "n", "o", "w", "n", " ", "1", "2", "3", "4">>), JsStr(<<"U", "n", "k", "n", "o", "w", "n">>)),
    PlaceholderLast }

Candidate(id, name, description) ==
    JsObj([id |-> id, name |-> name, description |-> description])
CafeRoma == Candidate(JsTok("9"), JsStr(<<"C", "a", "f", "e", " ", "R", "o", "m", "a">>), JsUndef)
Shell == Candidate(JsTok("3"), JsStr(<<"S", "h", "e", "l", "l">>), JsStr(<<"F", "u", "e", "l">>))
Bp == Candidate(JsTok("4"), JsStr(<<"B", "P">>), JsNull)
NoName == Candidate(JsTok("7"), JsStr(<<"(", "U", "n", "k", "n", "o", "w", "n", ")">>), JsUndef)

\* what one getExpenseAccountSuggestions call does: it throws, or resolves
\* with a list
SearchOutcomes ==
    {[throws |-> TRUE]} \cup
    {[throws |-> FALSE, list |-> l] :
        l \in {<<>>, <<NoName>>, <<CafeRoma>>, <<NoName, CafeRoma>>,
               <<Shell, CafeRoma>>, <<Shell, Bp>>}}

Answer(decision, account) == JsObj([decision |-> decision, account |-> account])
Account(name, description) == JsObj([name |-> name, description |-> description])
AccountNoDescription(name) == JsObj([name |-> name])
AccountWithId(id, name) == JsObj([id |-> id, name |-> name])
LidlName == JsStr(<<"L", "i", "d", "l">>)
ShellLower == JsStr(<<"s", "h", "e", "l", "l">>)
Groceries == JsStr(<<"F", "o", "o", "d">>)

\* what one getCompletion call does: it throws, or resolves with a completion
Completions == {
    JsNull,
    Text(<<>>),
    Text(<<Prose>>),
    Text(<<Braces>>),
    Text(<<Json(JsNull)>>),
    Text(<<Json(JsArr)>>),
    Text(<<Json(Answer(JsTok("create"), Account(LidlName, Groceries)))>>),
    Text(<<Ws, FenceJson, Ws,
           Json(Answer(JsTok("create"), Account(LidlName, JsStr(<<>>)))),
           Ws, Fence, Ws>>),
    Text(<<Prose, Ws, Json(Answer(JsTok("existing"), AccountNoDescription(ShellLower))),
           Ws, Prose>>),
    Text(<<Json(Answer(JsTok("create"), Account(LidlName, Groceries))), Prose,
           Json(Answer(JsTok("create"), Account(LidlName, Groceries)))>>),
    Text(<<Json(Answer(JsTok("create"), AccountNoDescription(LidlName)))>>),
    Text(<<Json(Answer(JsTok("create"), Account(LidlName, JsNull)))>>),
    Text(<<Json(Answer(JsTok("existing"), AccountNoDescription(LidlName)))>>),
    Text(<<Json(Answer(JsTok("existing"), Account(ShellLower, JsNum(5))))>>),
    Text(<<Json(Answer(JsTok("existing"), AccountWithId(JsTok("42"), LidlName)))>>),
    Text(<<Json(Answer(JsTok("maybe"), Account(LidlName, Groceries)))>>),
    Text(<<Json(Answer(JsNum(1), Account(LidlName, Groceries)))>>),
    Text(<<Json(JsObj([decision |-> JsTok("create")]))>>),
    Text(<<Json(Answer(JsTok("create"), JsNull))>>),
    Text(<<Json(Answer(JsTok("create"), JsStr(<<"L", "i", "d", "l">>)))>>),
    Text(<<Json(Answer(JsTok("create"), Account(JsStr(<<>>), Groceries)))>>),
    Text(<<Json(Answer(JsTok("create"), Account(JsStr(<<" ", " ">>), Groceries)))>>),
    Text(<<Json(Answer(JsTok("existing"), Account(JsNum(7), Groceries)))>>) }
AiOutcomes ==
    {[throws |-> TRUE]} \cup {[throws |-> FALSE, text |-> c] : c \in Completions}
(***************************************************************************)
(* What the pure functions give on the inputs                              *)
(***************************************************************************)
\* !transaction
MissingTransaction(transaction) == Falsy(transaction)
\* !transaction || !transaction.description
MissingDescription(transaction) ==
    Falsy(transaction) \/ Falsy(Field(transaction, "description"))
descriptionInfo ==
    [t \in Transactions |-> normalizeText(Field(t, "description"))]
destinationInfo ==
    [t \in Transactions |->
        normalizeText(Coalesce(Field(t, "destination_name"), JsStr(<<>>)))]
cacheKey ==
    [t \in Transactions |->
        buildCacheKey(descriptionInfo[t].normalizedText,
                      destinationInfo[t].normalizedText)]
queries ==
    [t \in Transactions |->
        IF MissingDescription(t) THEN <<>>
        ELSE generateQueries(t, descriptionInfo[t], destinationInfo[t])]
\* the queries the collector does not skip: if (this.#isPlaceholder(query)) continue
NotSkipped(qs) == {j \in DOMAIN qs : ~isPlaceholder(JsStr(qs[j]))}
searchable ==
    [t \in Transactions |-> NotSkipped(queries[t])]
\* the suggestions as the search returned them
UnfilteredSuggestions(suggestions) == suggestions
\* suggestions.filter(candidate => !this.#isPlaceholder(candidate?.name))
FilterSuggestions(suggestions) ==
    SelectSeq(suggestions, LAMBDA candidate : ~isPlaceholder(Field(candidate, "name")))
filteredSuggestions ==
    [o \in {x \in SearchOutcomes : ~x.throws} |-> FilterSuggestions(o.list)]
CandidateLists ==
    {<<>>} \cup {filteredSuggestions[o] : o \in DOMAIN filteredSuggestions}
deterministicMatch ==
    [t \in Transactions, l \in CandidateLists |->
        attemptDeterministicMatch(l, descriptionInfo[t].tokens, destinationInfo[t].tokens)]
parsedResponse ==
    [c \in Completions |-> parseResponse(c)]

(***************************************************************************)
(* State                                                                   *)
(***************************************************************************)
\* the caller's handles on matchTransaction invocations
Invocations == {"i1", "i2"}

VARIABLES
    cache,      \* #decisionCache: cache key -> reference of the stored Decision
    heap,       \* the Decision and account objects: reference -> fields
    inv,        \* per invocation: position, locals, and what it did so far
    nCalls,     \* matchTransaction calls made so far
    stored,     \* history: cache key -> the value last stored under it
    returned,   \* history: the cache keys some call has returned a decision for
    job,        \* the classification job the queue runs, and what it did so far
    probe       \* a direct application of the matcher's pure functions
vars == <<cache, heap, inv, nCalls, stored, returned, job, probe>>

\* App.run constructs the matcher with a FireflyService: !this.#firefly is false
firefly == TRUE

Idle == [
    pc |-> "idle",            \* idle, search, ai, returned, failed, held
    txn |-> JsUndef,          \* the transaction argument
    key |-> <<>>,             \* cacheKey
    qi |-> 0,                 \* index of the query whose search is awaited
    cands |-> <<>>,           \* autocompleteCandidates
    detMatch |-> JsNull,      \* deterministicMatch
    completion |-> JsUndef,   \* what getCompletion did
    result |-> 0,             \* reference of the returned Decision
    ret |-> JsUndef,          \* the returned Decision as it was when returned
    err |-> "",               \* message of the error thrown
    cacheHit |-> FALSE,
    afterReturn |-> FALSE,    \* a decision for this key had been returned before
    log |-> <<>>,             \* the getExpenseAccountSuggestions calls: the query
                              \* passed and, once settled, what the call did
    aiCalls |-> 0,            \* getCompletion calls
    cacheReads |-> 0,         \* #decisionCache.has / get
    cacheWrites |-> 0 ]       \* #decisionCache.set

InFlight(p) == inv[p].pc \in {"search", "ai"}

\* what the caller keeps of an invocation that is over: the Decision it returned
Kept(rec) ==
    IF rec.pc \in {"returned", "held"}
    THEN [Idle EXCEPT !.pc = "held", !.key = rec.key, !.result = rec.result,
                      !.ret = rec.ret]
    ELSE Idle

(***************************************************************************)
(* Objects                                                                 *)
(***************************************************************************)
NewRef(h) == Min({r \in 1..(Cardinality(DOMAIN h) + 1) : r \notin DOMAIN h})

\* a new object {decision, account: {id, name, description, source}}
NewDecision(h, decision, account) ==
    LET a == NewRef(h)
        h1 == (a :> account) @@ h
        d == NewRef(h1)
    IN  [heap |-> (d :> [decision |-> decision, account |-> a]) @@ h1, ref |-> d]

\* {...decision}: a new Decision object that shares the account object
ShallowCloneDecision(h, ref) ==
    LET d == NewRef(h) IN [heap |-> (d :> h[ref]) @@ h, ref |-> d]
\* #cloneDecision(decision)
cloneDecision(h, ref) ==
    LET account == h[h[ref].account]
    IN  NewDecision(h, h[ref].decision,
            [id |-> account.id,
             name |-> account.name,
             description |-> Coalesce(account.description, JsStr(<<>>)),
             source |-> account.source])

DeepValue(h, ref) == [decision |-> h[ref].decision, account |-> h[h[ref].account]]

\* objects no caller handle and no cache entry leads to are collected
Roots(c, i) == {c[k] : k \in DOMAIN c} \cup ({i[p].result : p \in Invocations} \ {0})
Collected(h, c, i) ==
    LET live == Roots(c, i) \cup {h[r].account : r \in Roots(c, i)}
    IN  [r \in live |-> h[r]]

(***************************************************************************)
(* matchTransaction, from one await to the next                            *)
(***************************************************************************)
\* the same, calling getCompletion a second time when the first call failed
ThrowOrRetry(p, i, h, message) ==
    /\ inv' = IF i[p].pc = "ai" /\ i[p].aiCalls < 2
              THEN [i EXCEPT ![p].aiCalls = @ + 1]
              ELSE [i EXCEPT ![p].pc = "failed", ![p].err = message]
    /\ heap' = h
    /\ UNCHANGED <<cache, stored, returned>>

\* throw new Error(message)
Throw(p, i, h, message) ==
    /\ inv' = [i EXCEPT ![p].pc = "failed", ![p].err = message]
    /\ heap' = h
    /\ UNCHANGED <<cache, stored, returned>>

\* return decision, without the #decisionCache.set
ReturnWithoutStore(p, i, h, ref) ==
    /\ inv' = [i EXCEPT ![p].pc = "returned", ![p].result = ref,
                        ![p].ret = DeepValue(h, ref)]
    /\ heap' = Collected(h, cache, inv')
    /\ returned' = returned \cup {i[p].key}
    /\ UNCHANGED <<cache, stored>>

\* this.#decisionCache.set(cacheKey, this.#cloneDecision(decision)); return decision
StoreAndReturn(p, i, h, ref) ==
    \E copy \in {cloneDecision(h, ref)} :
        /\ inv' = [i EXCEPT ![p].pc = "returned", ![p].result = ref,
                            ![p].ret = DeepValue(h, ref), ![p].cacheWrites = @ + 1]
        /\ cache' = (i[p].key :> copy.ref) @@ cache
        /\ heap' = Collected(copy.heap, cache', inv')
        /\ stored' = (i[p].key :> DeepValue(copy.heap, copy.ref)) @@ stored
        /\ returned' = returned \cup {i[p].key}

\* the same, writing the cache entry and then failing
StoreThenThrow(p, i, made) ==
    \E copy \in {cloneDecision(made.heap, made.ref)} :
        /\ inv' = [i EXCEPT ![p].pc = "failed", ![p].err = "failed after the write",
                            ![p].cacheWrites = @ + 1]
        /\ cache' = (i[p].key :> copy.ref) @@ cache
        /\ heap' = Collected(copy.heap, cache', inv')
        /\ stored' = (i[p].key :> DeepValue(copy.heap, copy.ref)) @@ stored
        /\ UNCHANGED returned

\* return a Decision just made, storing its clone
StoreMade(p, i, made) == StoreAndReturn(p, i, made.heap, made.ref)

\* the same, leaving alone an entry another call stored in the meantime
AiDecisionKeepingEntry(p, i, h, account, decision, id) ==
    \E made \in {NewDecision(h, decision,
                     [id |-> id,
                      name |-> Field(account, "name"),
                      description |-> Coalesce(Field(account, "description"), JsStr(<<>>)),
                      source |-> IF decision = JsTok("existing")
                                 THEN JsTok("ai") ELSE JsTok("ai-new")])} :
        IF i[p].key \in DOMAIN cache
        THEN ReturnWithoutStore(p, i, made.heap, made.ref)
        ELSE StoreMade(p, i, made)

\* the Decision #runAiDecision builds: its decision and the id of its account
AiDecision(p, i, h, account, decision, id) ==
    StoreMade(p, i,
        NewDecision(h, decision,
            [id |-> id,
             name |-> Field(account, "name"),
             description |-> Coalesce(Field(account, "description"), JsStr(<<>>)),
             source |-> IF decision = JsTok("existing")
                        THEN JsTok("ai") ELSE JsTok("ai-new")]))

\* the same, trusting an "existing" answer that names no candidate
ResolveAiTrusting(p, i, h, parsed) ==
    AiDecision(p, i, h, Field(parsed, "account"), Field(parsed, "decision"),
               Field(Field(parsed, "account"), "id"))

\* #runAiDecision after the completion has been parsed
\* candidates.find(candidate => !placeholder && same name, case-insensitively)
MatchingCandidates(candidates, name) ==
    {j \in DOMAIN candidates :
        /\ ~isPlaceholder(Field(candidates[j], "name"))
        /\ ToLowerCase(Field(candidates[j], "name").s) = ToLowerCase(name.s)}
\* the same, keeping the id the completion gave for an "existing" answer
ResolveWithAiId(p, i, h, parsed, candidates, matching) ==
    IF Field(parsed, "decision") = JsTok("existing") /\ matching = {}
    THEN AiDecision(p, i, h, Field(parsed, "account"), JsTok("create"),
                    Field(Field(parsed, "account"), "id"))
    ELSE AiDecision(p, i, h, Field(parsed, "account"), Field(parsed, "decision"),
                    Field(Field(parsed, "account"), "id"))
ResolveWith(p, i, h, parsed, candidates, matching) ==
    IF Field(parsed, "decision") = JsTok("existing")
    THEN IF matching # {}
         THEN AiDecision(p, i, h, Field(parsed, "account"), JsTok("existing"),
                         Field(candidates[Min(matching)], "id"))
         ELSE AiDecision(p, i, h, Field(parsed, "account"), JsTok("create"),
                         Field(Field(parsed, "account"), "id"))
    ELSE AiDecision(p, i, h, Field(parsed, "account"), Field(parsed, "decision"),
                    Field(Field(parsed, "account"), "id"))
ResolveAi(p, i, h, parsed) ==
    ResolveWith(p, i, h, parsed, i[p].cands,
        MatchingCandidates(i[p].cands, Field(Field(parsed, "account"), "name")))

\* the decision for `account` when the deterministic matcher gave `match`,
\* the getCompletion call when it gave null
DecideWith(p, i, h, candidates, match, account) ==
    IF match # JsNull
    THEN StoreMade(p, [i EXCEPT ![p].cands = candidates, ![p].detMatch = match],
             NewDecision(h, JsTok("existing"),
                 [id |-> Field(account, "id"),
                  name |-> Field(account, "name"),
                  description |-> Coalesce(Field(account, "description"), JsStr(<<>>)),
                  source |-> JsTok("autocomplete")]))
    ELSE /\ inv' = [i EXCEPT ![p].cands = candidates, ![p].detMatch = match,
                             ![p].pc = "ai", ![p].aiCalls = @ + 1]
         /\ heap' = h
         /\ UNCHANGED <<cache, stored, returned>>

\* the same, building the decision from the first candidate
DecideFirstCandidate(p, i, h, candidates) ==
    DecideWith(p, i, h, candidates, deterministicMatch[i[p].txn, candidates],
               IF candidates = <<>> THEN JsNull ELSE candidates[1])

\* matchTransaction from the return of #collectAutocompleteCandidates to the
\* getCompletion call, or to its return when the deterministic matcher matches
Decide(p, i, h, candidates) ==
    DecideWith(p, i, h, candidates, deterministicMatch[i[p].txn, candidates],
               deterministicMatch[i[p].txn, candidates])

\* the same, starting over from the first query after a search gave nothing
CollectFromFirst(p, i, h, from) ==
    IF firefly /\ searchable[i[p].txn] # {}
    THEN \E pending \in {searchable[i[p].txn]} :
             /\ inv' = [i EXCEPT ![p].pc = "search", ![p].qi = Min(pending),
                                 ![p].log =
                                     Append(@, [query |-> queries[i[p].txn][Min(pending)],
                                                outcome |-> JsUndef])]
             /\ heap' = h
             /\ UNCHANGED <<cache, stored, returned>>
    ELSE Decide(p, i, h, <<>>)

\* #collectAutocompleteCandidates from the query at index `from` to the next
\* getExpenseAccountSuggestions call, or to its return when no query is left
Collect(p, i, h, from) ==
    IF firefly /\ \E j \in searchable[i[p].txn] : j >= from
    THEN \E pending \in {{j \in searchable[i[p].txn] : j >= from}} :
             /\ inv' = [i EXCEPT ![p].pc = "search", ![p].qi = Min(pending),
                                 ![p].log =
                                     Append(@, [query |-> queries[i[p].txn][Min(pending)],
                                                outcome |-> JsUndef])]
             /\ heap' = h
             /\ UNCHANGED <<cache, stored, returned>>
    ELSE Decide(p, i, h, <<>>)

\* matchTransaction(transaction) up to its first await
\* return this.#cloneDecision(this.#decisionCache.get(cacheKey))
ReturnCached(p, i, copy) ==
    /\ inv' = [i EXCEPT ![p].pc = "returned", ![p].cacheHit = TRUE,
                        ![p].cacheReads = @ + 1,
                        ![p].result = copy.ref,
                        ![p].ret = DeepValue(copy.heap, copy.ref)]
    /\ heap' = copy.heap
    /\ UNCHANGED <<cache, stored, returned>>

\* if (this.#decisionCache.has(cacheKey)) ... and what follows
\* the same, never reading the cache
LookupIgnoringCache(p, i, h, key) ==
    Collect(p, [i EXCEPT ![p].key = key, ![p].afterReturn = key \in returned], h, 1)
Lookup(p, i, h, key) ==
    IF key \in DOMAIN cache
    THEN ReturnCached(p, [i EXCEPT ![p].key = key, ![p].cacheReads = @ + 1,
                                  ![p].afterReturn = key \in returned],
                      cloneDecision(h, cache[key]))
    ELSE Collect(p, [i EXCEPT ![p].key = key, ![p].cacheReads = @ + 1,
                             ![p].afterReturn = key \in returned], h, 1)

matchTransaction(p, i, h) ==
    IF MissingDescription(i[p].txn)
    THEN Throw(p, i, h, "Transaction with description is required")
    ELSE Lookup(p, i, h, cacheKey[i[p].txn])

(***************************************************************************)
(* Actions                                                                 *)
(***************************************************************************)
\* the caller calls matchTransaction(t) once the previous call is over (the
\* job queue runs one job at a time); it keeps the Decision it was returned
\* last and reuses the other handle, dropping that handle's result
Call(p, t) ==
    /\ nCalls < MaxCalls
    /\ \A q \in Invocations : ~InFlight(q)
    /\ p = CHOOSE q \in Invocations : inv[q].pc # "returned"
    /\ nCalls' = nCalls + 1
    /\ \E inv1 \in {[q \in Invocations |->
                          IF q = p THEN [Idle EXCEPT !.txn = t] ELSE Kept(inv[q])]} :
           matchTransaction(p, inv1, Collected(heap, cache, inv1))

\* the same without the try/catch around the search call
SearchReturnNoCatch(p, outcome) ==
    /\ inv[p].pc = "search"
    /\ \E inv1 \in {[inv EXCEPT ![p].log[Len(inv[p].log)].outcome = outcome]} :
           \E filtered \in {IF outcome.throws THEN <<>> ELSE filteredSuggestions[outcome]} :
               IF outcome.throws
               THEN Throw(p, inv1, heap, "getExpenseAccountSuggestions failed")
               ELSE IF Len(filtered) > 0
               THEN Decide(p, inv1, heap, filtered)
               ELSE Collect(p, inv1, heap, inv[p].qi + 1)
    /\ UNCHANGED nCalls

\* the awaited getExpenseAccountSuggestions call settles
SearchReturn(p, outcome) ==
    /\ inv[p].pc = "search"
    /\ \E inv1 \in {[inv EXCEPT ![p].log[Len(inv[p].log)].outcome = outcome]} :
           \E filtered \in {IF outcome.throws THEN <<>> ELSE filteredSuggestions[outcome]} :
               \* a search that threw is caught and logged: the loop goes on
               IF ~outcome.throws /\ Len(filtered) > 0
               THEN Decide(p, inv1, heap, filtered)
               ELSE Collect(p, inv1, heap, inv[p].qi + 1)
    /\ UNCHANGED nCalls

\* the same, answering a rejected completion with a default decision
AiReturnDefaulting(p, outcome) ==
    /\ inv[p].pc = "ai"
    /\ \E inv1 \in {[inv EXCEPT ![p].completion = outcome]} :
           IF outcome.throws THEN Throw(p, inv1, heap, "getCompletion failed")
           ELSE \E parsed \in {parsedResponse[outcome.text]} :
                    ResolveAi(p, inv1, heap,
                        IF parsed.ok THEN parsed.value
                        ELSE Answer(JsTok("create"),
                                    Account(JsStr(<<"N", "e", "w">>), JsStr(<<>>))))
    /\ UNCHANGED nCalls

\* the awaited getCompletion call settles
AiReturn(p, outcome) ==
    /\ inv[p].pc = "ai"
    /\ \E inv1 \in {[inv EXCEPT ![p].completion = outcome]} :
           IF outcome.throws THEN Throw(p, inv1, heap, "getCompletion failed")
           ELSE \E parsed \in {parsedResponse[outcome.text]} :
                    IF ~parsed.ok
                    THEN Throw(p, inv1, heap, parsed.error)
                    ELSE ResolveAi(p, inv1, heap, parsed.value)
    /\ UNCHANGED nCalls

\* the caller writes to the fields of the Decision it was just returned
Mutate(p) ==
    /\ inv[p].pc = "returned"
    /\ LET ref == inv[p].result
           heap1 == [heap EXCEPT ![ref].decision = JsTok("mutated"),
                                 ![heap[ref].account].name = JsStr(<<"x">>),
                                 ![heap[ref].account].id = JsTok("0")]
       IN  /\ heap1 # heap
           /\ heap' = heap1
    /\ UNCHANGED <<cache, inv, nCalls, stored, returned>>

(***************************************************************************)
(* The classification job of App: one job at a time (queue concurrency 1), *)
(* from one await to the next                                              *)
(***************************************************************************)
\* the splits TransactionValidator lets through carry a description and a
\* destination name
JobTransactions ==
    {t \in Transactions \ {PlaceholderLast} :
        /\ t # JsNull
        /\ ~Falsy(Field(t, "description"))
        /\ ~Falsy(Field(t, "destination_name"))}

\* what getCategories resolves with: category name -> category id
Categories == [Food |-> JsTok("11")]
CategoriesOutcomes == {[throws |-> TRUE], [throws |-> FALSE]}
\* what provider.classify does: it throws, or resolves with a classification
ClassifyOutcomes ==
    {[throws |-> TRUE]} \cup
    {[throws |-> FALSE, classification |-> c] :
        c \in {JsNull, JsObj([category |-> JsNull]),
               JsObj([category |-> JsTok("Food")]),
               JsObj([category |-> JsTok("Travel")])}}
\* what setCategory and setAccount do
LedgerOutcomes == {[throws |-> TRUE], [throws |-> FALSE]}
\* what createAccount does: it resolves with the new id, or throws an error
\* whose message is given by its parts
CreateAccountOutcomes ==
    { [throws |-> FALSE, id |-> JsTok("77")],
      [throws |-> TRUE, message |-> <<"Request failed with status code ", "422">>],
      [throws |-> TRUE, message |-> <<"Request failed with status code ", "500">>] }

NoJob == [
    pc |-> "none",            \* none, categories, classify, matching, setCategory,
                              \* createAccount, findExisting, setAccount,
                              \* finished, failed
    status |-> "none",        \* the JobList status: in_progress, finished
    handle |-> "",            \* the matchTransaction invocation of the job
    txn |-> JsUndef,          \* {description, destination_name}
    category |-> JsNull,      \* jobData.category
    categoryId |-> JsNull,    \* context.categoryId
    expenseAccount |-> JsUndef,   \* jobData.expenseAccount
    calls |-> <<>>,           \* the ledger calls of the job and what each did
    err |-> "" ]              \* the error the job function threw

\* the job function throws
JobFail(j, message) ==
    job' = [j EXCEPT !.pc = "failed", !.err = message]

\* a call of the ledger, awaited at position pc
LedgerCall(j, op, arg, pc) ==
    job' = [j EXCEPT !.pc = pc,
                     !.calls = Append(@, [op |-> op, arg |-> arg, outcome |-> JsUndef])]

\* the awaited ledger call has settled
Settled(j, outcome) == [j EXCEPT !.calls[Len(j.calls)].outcome = outcome]

\* this.#jobList.setJobFinished(job.id)
JobFinish(j) == job' = [j EXCEPT !.pc = "finished", !.status = "finished"]

\* the same, taking the id of the decision for a "create" decision too
resolveAccountIdOfDecision(j) ==
    IF j.expenseAccount.action \in {"matched", "created"}
    THEN LedgerCall(j, "setAccount", j.expenseAccount.accountId, "setAccount")
    ELSE JobFail(j, "Cannot resolve account ID for action")

\* #resolveAccountId up to its first await
resolveAccountId(j) ==
    IF j.expenseAccount.action = "matched"
    THEN LedgerCall(j, "setAccount", j.expenseAccount.accountId, "setAccount")
    ELSE IF j.expenseAccount.action = "created"
    THEN LedgerCall(j, "createAccount", j.expenseAccount.name, "createAccount")
    ELSE JobFail(j, "Cannot resolve account ID for action")

\* the second half of #applyClassificationResults: if (context.shouldApplyAccount())
ApplyAccount(j) ==
    IF j.expenseAccount # JsUndef /\ j.expenseAccount.action # "failed"
    THEN resolveAccountId(j)
    ELSE JobFinish(j)

\* #applyClassificationResults up to its first await
applyClassificationResults(j) ==
    IF ~Falsy(j.category) /\ ~Falsy(j.categoryId)
    THEN LedgerCall(j, "setCategory", j.categoryId, "setCategory")
    ELSE ApplyAccount(j)

\* a || b
OrElse(a, b) == IF Falsy(a) THEN b ELSE a

\* context.setExpenseAccount({...}) of #executeAccountMatching
ExpenseAccountOf(decision) ==
    [name |-> decision.account.name,
     description |-> OrElse(decision.account.description, JsStr(<<>>)),
     action |-> IF decision.decision = JsTok("existing") THEN "matched" ELSE "created",
     decision |-> decision.decision,
     source |-> OrElse(decision.account.source, JsNull),
     accountId |-> OrElse(decision.account.id, JsNull)]

\* context.setClassification(classification, categories)
WithClassification(j, classification) ==
    [j EXCEPT !.category = OrElse(Field(classification, "category"), JsNull),
              !.categoryId =
                  IF /\ ~Falsy(Field(classification, "category"))
                     /\ Field(classification, "category").a \in DOMAIN Categories
                  THEN Categories[Field(classification, "category").a]
                  ELSE JsNull]

\* the queue starts the job function: setJobInProgress, then getCategories
JobStart(t) ==
    /\ job.pc \in {"none", "finished", "failed"}
    /\ nCalls < MaxCalls
    /\ job' = [NoJob EXCEPT !.pc = "categories", !.status = "in_progress", !.txn = t]
    /\ UNCHANGED <<cache, heap, inv, nCalls, stored, returned, probe>>

\* the awaited getCategories call settles; provider.classify is called
CategoriesReturn(outcome) ==
    /\ job.pc = "categories"
    /\ IF outcome.throws THEN JobFail(job, "getCategories failed")
       ELSE job' = [job EXCEPT !.pc = "classify"]
    /\ UNCHANGED <<cache, heap, inv, nCalls, stored, returned, probe>>

\* the awaited provider.classify call settles; #executeAccountMatching calls
\* matchTransaction
ClassifyReturn(p, outcome) ==
    /\ job.pc = "classify"
    /\ IF outcome.throws
       THEN /\ JobFail(job, "classify failed")
            /\ UNCHANGED <<cache, heap, inv, nCalls, stored, returned>>
       ELSE /\ job' = [WithClassification(job, outcome.classification)
                          EXCEPT !.pc = "matching", !.handle = p]
            /\ Call(p, job.txn)
    /\ UNCHANGED probe

\* the matcher's awaits settle while the job awaits matchTransaction
JobSearchReturn(p, outcome) ==
    /\ job.pc = "matching"
    /\ SearchReturn(p, outcome)
    /\ UNCHANGED <<job, probe>>
JobAiReturn(p, outcome) ==
    /\ job.pc = "matching"
    /\ AiReturn(p, outcome)
    /\ UNCHANGED <<job, probe>>

\* as MatchReturn, with a #executeAccountMatching that records the error and
\* does not rethrow it
MatchReturnSwallowing ==
    /\ job.pc = "matching"
    /\ inv[job.handle].pc \in {"returned", "failed"}
    /\ IF inv[job.handle].pc = "failed"
       THEN applyClassificationResults(
                [job EXCEPT !.expenseAccount =
                                [error |-> inv[job.handle].err, action |-> "failed",
                                 errorType |-> "ExpenseAccountError"]])
       ELSE applyClassificationResults(
                [job EXCEPT !.expenseAccount =
                                ExpenseAccountOf(DeepValue(heap, inv[job.handle].result))])
    /\ UNCHANGED <<cache, heap, inv, nCalls, stored, returned, probe>>

\* the awaited matchTransaction call settles: the rest of
\* #executeAccountMatching, updateJobData, and #applyClassificationResults up
\* to its first await
MatchReturn ==
    /\ job.pc = "matching"
    /\ inv[job.handle].pc \in {"returned", "failed"}
    /\ IF inv[job.handle].pc = "failed"
       THEN JobFail([job EXCEPT !.expenseAccount =
                                    [error |-> inv[job.handle].err, action |-> "failed",
                                     errorType |-> "ExpenseAccountError"]],
                    "Failed to categorize expense account")
       ELSE applyClassificationResults(
                [job EXCEPT !.expenseAccount =
                                ExpenseAccountOf(DeepValue(heap, inv[job.handle].result))])
    /\ UNCHANGED <<cache, heap, inv, nCalls, stored, returned, probe>>

\* the awaited setCategory call settles
SetCategoryReturn(outcome) ==
    /\ job.pc = "setCategory"
    /\ IF outcome.throws THEN JobFail(Settled(job, outcome), "setCategory failed")
       ELSE ApplyAccount(Settled(job, outcome))
    /\ UNCHANGED <<cache, heap, inv, nCalls, stored, returned, probe>>

\* as isDuplicateAccountError, taking every createAccount error for a
\* duplicate name
AnyErrorIsDuplicate(error) == TRUE

\* error.message.includes('422')
isDuplicateAccountError(error) == \E i \in DOMAIN error.message : error.message[i] = "422"

\* the awaited createAccount call settles
CreateAccountReturn(outcome) ==
    /\ job.pc = "createAccount"
    /\ IF ~outcome.throws
       THEN LedgerCall(Settled(job, outcome), "setAccount", outcome.id, "setAccount")
       ELSE IF isDuplicateAccountError(outcome)
       THEN LedgerCall(Settled(job, outcome), "getExpenseAccountSuggestions",
                       job.expenseAccount.name, "findExisting")
       ELSE JobFail(Settled(job, outcome), "createAccount failed")
    /\ UNCHANGED <<cache, heap, inv, nCalls, stored, returned, probe>>

\* suggestions.find(suggestion => suggestion.name.toLowerCase() === accountName.toLowerCase())
SameNameAs(suggestions, accountName) ==
    {i \in DOMAIN suggestions :
        ToLowerCase(Field(suggestions[i], "name").s) = ToLowerCase(accountName.s)}

\* the awaited getExpenseAccountSuggestions call of #findExistingAccount settles
FindExistingReturn(outcome) ==
    /\ job.pc = "findExisting"
    /\ IF outcome.throws
       THEN JobFail(Settled(job, outcome), "getExpenseAccountSuggestions failed")
       ELSE IF SameNameAs(outcome.list, job.expenseAccount.name) = {}
       THEN JobFail(Settled(job, outcome), "Account appears to exist but could not be found")
       ELSE LedgerCall(Settled(job, outcome), "setAccount",
                Field(outcome.list[Min(SameNameAs(outcome.list, job.expenseAccount.name))],
                      "id"),
                "setAccount")
    /\ UNCHANGED <<cache, heap, inv, nCalls, stored, returned, probe>>

\* the same, marking the job finished whatever setAccount did
SetAccountReturnFinishing(outcome) ==
    /\ job.pc = "setAccount"
    /\ JobFinish(Settled(job, outcome))
    /\ UNCHANGED <<cache, heap, inv, nCalls, stored, returned, probe>>

\* the awaited setAccount call settles; setJobFinished
SetAccountReturn(outcome) ==
    /\ job.pc = "setAccount"
    /\ IF outcome.throws THEN JobFail(Settled(job, outcome), "setAccount failed")
       ELSE JobFinish(Settled(job, outcome))
    /\ UNCHANGED <<cache, heap, inv, nCalls, stored, returned, probe>>

(***************************************************************************)
(* The pure functions of the matcher, applied directly to inputs that      *)
(* matchTransaction passes them and to inputs the searches above do not    *)
(* produce                                                                 *)
(***************************************************************************)
\* a candidate without a name
Nameless == Candidate(JsTok("8"), JsUndef, JsUndef)
CafeOnly == Candidate(JsTok("5"), JsStr(<<"C", "a", "f", "e">>), JsUndef)
ElevenTokens ==
    Txn(JsStr(<<"r", "o", "m", "a", " ", "a", "b", " ", "a", "c", " ", "a", "d", " ",
                "a", "e", " ", "a", "f", " ", "a", "g", " ", "a", "h", " ", "a", "i",
                " ", "a", "j">>),
        JsStr(<<"C", "a", "f", "e">>))
TenTokens ==
    Txn(JsStr(<<"r", "o", "m", "a", " ", "a", "b", " ", "a", "c", " ", "a", "d", " ",
                "a", "e", " ", "a", "f", " ", "a", "g", " ", "a", "h", " ", "a", "i">>),
        JsStr(<<"C", "a", "f", "e">>))
ProbeTransactions ==
    {t \in Transactions : ~MissingDescription(t)} \cup
    { ElevenTokens, TenTokens,
      Txn(JsStr(<<"c", "a", "f", "e", " ", "r", "o", "m", "a">>),
          JsStr(<<"C", "a", "f", "e">>)),
      Txn(JsStr(<<"s", "h", "e", "l", "l", " ", "f", "u", "e", "l", " ", "b", "p">>),
          JsStr(<<"(", "U", "n", "k", "n", "o", "w", "n", ")">>)) }
ProbeCandidates ==
    { <<>>, <<NoName>>, <<Nameless>>, <<Shell>>, <<CafeRoma>>, <<Shell, CafeRoma>>,
      <<Shell, Bp>>, <<Nameless, CafeRoma>>, <<Bp, Shell, CafeRoma>>,
      <<CafeOnly, CafeRoma>> }

NoProbe == [pc |-> "none"]
\* the arguments, before anything is computed
ProbeOf(t, candidates) ==
    [pc |-> "input", txn |-> t, candidates |-> candidates,
     descriptionInfo |-> EmptyInfo, destinationInfo |-> EmptyInfo,
     ran |-> {}, queries |-> <<>>, match |-> JsNull, lenientMatch |-> JsNull]

\* const descriptionInfo = this.#normalizeText(transaction.description);
\* const destinationInfo = this.#normalizeText(transaction.destination_name ?? "");
Normalize ==
    /\ probe.pc = "input"
    /\ probe' = [probe EXCEPT
                     !.pc = "normalized",
                     !.descriptionInfo = normalizeText(Field(probe.txn, "description")),
                     !.destinationInfo =
                         normalizeText(Coalesce(Field(probe.txn, "destination_name"),
                                                JsStr(<<>>)))]
    /\ UNCHANGED <<cache, heap, inv, nCalls, stored, returned, job>>

\* const queries = this.#generateQueries(transaction, descriptionInfo, destinationInfo);
GenerateQueries ==
    /\ probe.pc = "normalized"
    /\ "queries" \notin probe.ran
    /\ probe' = [probe EXCEPT
                     !.ran = @ \cup {"queries"},
                     !.queries = generateQueries(probe.txn, probe.descriptionInfo,
                                                 probe.destinationInfo)]
    /\ UNCHANGED <<cache, heap, inv, nCalls, stored, returned, job>>

\* const deterministicMatch = this.#attemptDeterministicMatch(candidates,
\*     descriptionInfo.tokens, destinationInfo.tokens);
AttemptMatch ==
    /\ probe.pc = "normalized"
    /\ "match" \notin probe.ran
    /\ probe' = [probe EXCEPT
                     !.ran = @ \cup {"match"},
                     !.match = attemptDeterministicMatch(probe.candidates,
                                   probe.descriptionInfo.tokens,
                                   probe.destinationInfo.tokens)]
    /\ UNCHANGED <<cache, heap, inv, nCalls, stored, returned, job>>

\* the same call in the README listing of the matcher
AttemptLenientMatch ==
    /\ probe.pc = "normalized"
    /\ "lenientMatch" \notin probe.ran
    /\ probe' = [probe EXCEPT
                     !.ran = @ \cup {"lenientMatch"},
                     !.lenientMatch = attemptDeterministicMatchLenient(probe.candidates,
                                          probe.descriptionInfo.tokens,
                                          probe.destinationInfo.tokens)]
    /\ UNCHANGED <<cache, heap, inv, nCalls, stored, returned, job>>

PureInit ==
    /\ cache = <<>>
    /\ heap = <<>>
    /\ inv = [p \in Invocations |-> Idle]
    /\ nCalls = 0
    /\ stored = <<>>
    /\ returned = {}
    /\ job = NoJob
    /\ probe \in {ProbeOf(t, candidates) : t \in ProbeTransactions,
                                           candidates \in ProbeCandidates}

PureNext ==
    \/ Normalize
    \/ GenerateQueries
    \/ AttemptMatch
    \/ AttemptLenientMatch

PureSpec == PureInit /\ [][PureNext]_vars

Init ==
    /\ cache = <<>>
    /\ heap = <<>>
    /\ inv = [p \in Invocations |-> Idle]
    /\ nCalls = 0
    /\ stored = <<>>
    /\ returned = {}
    /\ job = NoJob
    /\ probe = NoProbe

\* the matcher and a caller of matchTransaction
Next ==
    \/ \E p \in Invocations, t \in Transactions \ {PlaceholderLast} :
           Call(p, t) /\ UNCHANGED <<job, probe>>
    \/ \E p \in Invocations, outcome \in SearchOutcomes :
           SearchReturn(p, outcome) /\ UNCHANGED <<job, probe>>
    \/ \E p \in Invocations, outcome \in AiOutcomes :
           AiReturn(p, outcome) /\ UNCHANGED <<job, probe>>
    \/ \E p \in Invocations : Mutate(p) /\ UNCHANGED <<job, probe>>

Spec == Init /\ [][Next]_vars

\* the matcher inside the job pipeline of App
JobNext ==
    \/ \E t \in JobTransactions : JobStart(t)
    \/ \E outcome \in CategoriesOutcomes : CategoriesReturn(outcome)
    \/ \E p \in Invocations, outcome \in ClassifyOutcomes : ClassifyReturn(p, outcome)
    \/ \E p \in Invocations, outcome \in SearchOutcomes : JobSearchReturn(p, outcome)
    \/ \E p \in Invocations, outcome \in AiOutcomes : JobAiReturn(p, outcome)
    \/ MatchReturn
    \/ \E outcome \in LedgerOutcomes : SetCategoryReturn(outcome)
    \/ \E outcome \in CreateAccountOutcomes : CreateAccountReturn(outcome)
    \/ \E outcome \in SearchOutcomes : FindExistingReturn(outcome)
    \/ \E outcome \in LedgerOutcomes : SetAccountReturn(outcome)

JobSpec == Init /\ [][JobNext]_vars

(***************************************************************************)
(* Properties                                                              *)
(***************************************************************************)
Started(p) == inv[p].pc \in {"search", "ai", "returned", "failed"}
Range(f) == {f[x] : x \in DOMAIN f}
\* the n-th query the collector does not skip
RECURSIVE Sorted(_)
Sorted(S) == IF S = {} THEN <<>> ELSE <<Min(S)>> \o Sorted(S \ {Min(S)})
\* the candidates of a list whose name is not a placeholder
Usable(list) ==
    SelectSeq(list, LAMBDA candidate : ~isPlaceholder(Field(candidate, "name")))
\* a settled search that gave no usable candidate: it threw, or every name it
\* returned is a placeholder
NothingUsable(entry) ==
    entry.outcome # JsUndef /\ (entry.outcome.throws \/ Usable(entry.outcome.list) = <<>>)
\* the JSON object a completion carries, when it carries exactly one JSON text
JsonChunks(c) ==
    IF c.t = "text" THEN SelectSeq(c.chunks, LAMBDA x : x.k \in {"json", "braces"}) ELSE <<>>
CarriesJson(c) == Len(JsonChunks(c)) = 1 /\ JsonChunks(c)[1].k = "json"
TheJson(c) == JsonChunks(c)[1].v
\* getCompletion has resolved with a completion
Completed(p) == inv[p].completion # JsUndef /\ ~inv[p].completion.throws
AiFailed(p) ==
    /\ inv[p].completion # JsUndef
    /\ inv[p].completion.throws \/ ~parsedResponse[inv[p].completion.text].ok

\* the transaction is missing, or its description is missing or empty
NoDescription(t) ==
    \/ t \in {JsNull, JsUndef}
    \/ Field(t, "description") \in {JsUndef, JsNull, JsStr(<<>>)}

\* C1: once a call has returned a decision for a cache key, a later call
\* with the same cache key makes no account search and no completion call.
C1_NoRepeatedWork ==
    \A p \in Invocations :
        inv[p].afterReturn => inv[p].log = <<>> /\ inv[p].aiCalls = 0 /\ inv[p].pc = "returned"
C1_Witness ==
    \E p, q \in Invocations :
        /\ inv[p].afterReturn /\ inv[p].pc = "returned"
        /\ inv[q].pc = "held" /\ inv[q].key = inv[p].key

\* C2: whatever the caller writes to the Decisions it was returned, every
\* cache entry still holds the value that was stored, a cache hit returns that
\* value, and no object of a returned Decision is an object of a cache entry
\* or of another returned Decision.
C2_CacheSnapshots ==
    LET objects(ref) == {ref, heap[ref].account}
    IN  /\ \A k \in DOMAIN cache : DeepValue(heap, cache[k]) = stored[k]
        /\ \A p \in Invocations : inv[p].cacheHit => inv[p].ret = stored[inv[p].key]
        /\ \A p \in Invocations :
              inv[p].result # 0 =>
                  /\ \A k \in DOMAIN cache : objects(inv[p].result) \cap objects(cache[k]) = {}
                  /\ \A q \in Invocations \ {p} :
                        inv[q].result # 0 =>
                            objects(inv[p].result) \cap objects(inv[q].result) = {}
C2_Witness ==
    \E p, q \in Invocations :
        /\ inv[q].pc = "held" /\ DeepValue(heap, inv[q].result) # inv[q].ret
        /\ inv[p].pc = "returned" /\ inv[p].cacheHit /\ inv[p].key = inv[q].key
        /\ DeepValue(heap, inv[p].result) # inv[p].ret

\* C3: with candidates and no deterministic match, an "existing" answer whose
\* account name equals, case-insensitively, no non-placeholder candidate name
\* is returned as decision "create" with source "ai-new".
NamesNoCandidate(p) ==
    LET answer == TheJson(inv[p].completion.text)
        name == Field(Field(answer, "account"), "name")
    IN  /\ Field(answer, "decision") = JsTok("existing")
        /\ IsStr(name) /\ Trim(name.s) # <<>>
        /\ \A j \in DOMAIN Usable(inv[p].cands) :
              ToLowerCase(Field(Usable(inv[p].cands)[j], "name").s) # ToLowerCase(name.s)
C3_UnknownExistingIsCreate ==
    \A p \in Invocations :
        ( /\ inv[p].cands # <<>> /\ inv[p].detMatch = JsNull
          /\ Completed(p) /\ CarriesJson(inv[p].completion.text)
          /\ NamesNoCandidate(p) )
        => /\ inv[p].pc = "returned"
           /\ inv[p].ret.decision = JsTok("create")
           /\ inv[p].ret.account.source = JsTok("ai-new")
C3_Witness ==
    \E p \in Invocations :
        /\ inv[p].cands # <<>> /\ inv[p].detMatch = JsNull
        /\ Completed(p) /\ CarriesJson(inv[p].completion.text)
        /\ NamesNoCandidate(p)
        /\ inv[p].pc = "returned"

\* C4: the collector searches the queries in order, skipping placeholder
\* queries; every search before the last gave nothing usable; when a search
\* gives a usable candidate the collector returns exactly the candidates of
\* that answer whose name is no placeholder, and searches no later query.
C4_FirstUsableQueryWins ==
    \A p \in Invocations :
        Started(p) =>
            LET log == inv[p].log
                order == Sorted(searchable[inv[p].txn])
            IN  /\ Len(log) <= Len(order)
                /\ \A n \in DOMAIN log : log[n].query = queries[inv[p].txn][order[n]]
                /\ \A n \in DOMAIN log : n < Len(log) => NothingUsable(log[n])
                /\ inv[p].pc = "search" <=> (log # <<>> /\ log[Len(log)].outcome = JsUndef)
                /\ inv[p].cands # <<>> =>
                      /\ ~NothingUsable(log[Len(log)])
                      /\ inv[p].cands = Usable(log[Len(log)].outcome.list)
                /\ (inv[p].pc # "search" /\ inv[p].cands = <<>> /\ ~inv[p].cacheHit) =>
                      /\ Len(log) = Len(order)
                      /\ \A n \in DOMAIN log : NothingUsable(log[n])
C4_Witness ==
    \E p \in Invocations :
        /\ Len(inv[p].log) = 1 /\ Cardinality(searchable[inv[p].txn]) = 2
        /\ inv[p].pc \in {"ai", "returned"}
        /\ Len(inv[p].cands) < Len(inv[p].log[1].outcome.list)

\* C5: a search call that throws does not fail the invocation: the next query
\* is searched, or, after the last query, the invocation goes on without
\* candidates; an invocation that searched fails only if the completion call
\* throws or its response is rejected.
C5_SearchErrorNotFatal ==
    \A p \in Invocations :
        Started(p) =>
            /\ \A n \in DOMAIN inv[p].log :
                  (inv[p].log[n].outcome # JsUndef /\ inv[p].log[n].outcome.throws) =>
                      \/ n < Len(inv[p].log)
                      \/ /\ n = Cardinality(searchable[inv[p].txn])
                         /\ inv[p].cands = <<>>
                         /\ inv[p].aiCalls = 1
            /\ (inv[p].pc = "failed" /\ inv[p].log # <<>>) => AiFailed(p)
            /\ (inv[p].aiCalls = 1 /\ inv[p].completion # JsUndef /\ ~AiFailed(p)) =>
                  inv[p].pc = "returned"
C5_Witness ==
    \E p \in Invocations :
        /\ inv[p].pc = "returned"
        /\ Len(inv[p].log) = 2
        /\ inv[p].log[1].outcome.throws
        /\ inv[p].cands # <<>>
\* C6: when no query gives a usable candidate the completion backend is
\* called, and an answer with decision "create" and a non-blank name is
\* returned as decision "create" with that name, source "ai-new" and the
\* answer's description, "" when the answer has none.
C6_CreationPath ==
    \A p \in Invocations :
        LET answer == TheJson(inv[p].completion.text)
            account == Field(answer, "account")
            name == Field(account, "name")
        IN  /\ ( /\ Started(p) /\ ~NoDescription(inv[p].txn) /\ ~inv[p].cacheHit
                 /\ inv[p].pc # "search" /\ inv[p].cands = <<>> )
               => inv[p].aiCalls = 1
            /\ ( /\ inv[p].cands = <<>>
                 /\ Completed(p) /\ CarriesJson(inv[p].completion.text)
                 /\ Field(answer, "decision") = JsTok("create")
                 /\ IsStr(name) /\ Trim(name.s) # <<>>
                 /\ IsStr(Field(account, "description"))
                        \/ Field(account, "description") = JsUndef )
               => /\ inv[p].pc = "returned"
                  /\ inv[p].ret.decision = JsTok("create")
                  /\ inv[p].ret.account.name = name
                  /\ inv[p].ret.account.source = JsTok("ai-new")
                  /\ inv[p].ret.account.description =
                         Coalesce(Field(account, "description"), JsStr(<<>>))

\* C7: when the deterministic matcher returns a candidate, the invocation
\* returns decision "existing" with that candidate's id and name and source
\* "autocomplete", and makes no completion call.
C7_DeterministicMatchWins ==
    \A p \in Invocations :
        inv[p].detMatch # JsNull =>
            /\ inv[p].pc = "returned"
            /\ inv[p].ret.decision = JsTok("existing")
            /\ inv[p].ret.account.id = Field(inv[p].detMatch, "id")
            /\ inv[p].ret.account.name = Field(inv[p].detMatch, "name")
            /\ inv[p].ret.account.source = JsTok("autocomplete")
            /\ inv[p].aiCalls = 0 /\ inv[p].completion = JsUndef
C7_Witness ==
    \E p \in Invocations :
        /\ inv[p].pc = "returned"
        /\ Len(inv[p].cands) = 2 /\ inv[p].detMatch = inv[p].cands[2]

\* C8: a call with no transaction or with an empty or missing description
\* fails before any search or completion call and without a read or a write
\* of the decision cache.
C8_InvalidInputFailsFirst ==
    \A p \in Invocations :
        (Started(p) /\ NoDescription(inv[p].txn)) =>
            /\ inv[p].pc = "failed"
            /\ inv[p].err = "Transaction with description is required"
            /\ inv[p].log = <<>> /\ inv[p].aiCalls = 0
            /\ inv[p].cacheReads = 0 /\ inv[p].cacheWrites = 0
            /\ inv[p].result = 0
C8_Witness ==
    \E p \in Invocations :
        /\ inv[p].pc = "failed" /\ NoDescription(inv[p].txn)
        /\ inv[p].txn # JsNull /\ Field(inv[p].txn, "description") = JsStr(<<>>)
        /\ cache # <<>>

\* C9: a completion that carries no parseable JSON, or whose JSON fails the
\* response validation, fails the invocation with an error: no Decision is
\* returned and none is stored.
C9_RejectedCompletionFails ==
    \A p \in Invocations :
        ( /\ Completed(p)
          /\ \/ ~CarriesJson(inv[p].completion.text)
             \/ ~isValidResponse(TheJson(inv[p].completion.text)) )
        => /\ inv[p].pc = "failed" /\ inv[p].err # ""
           /\ inv[p].result = 0 /\ inv[p].ret = JsUndef
           /\ inv[p].cacheWrites = 0
           /\ inv[p].key \notin DOMAIN cache
C9_Witness ==
    \E p \in Invocations :
        /\ inv[p].pc = "failed" /\ Completed(p)
        /\ CarriesJson(inv[p].completion.text)
        /\ TheJson(inv[p].completion.text).t = "object"
        /\ inv[p].cands # <<>>

\* C10: a completion is accepted if and only if it carries a JSON object
\* whose decision is "existing" or "create", whose account is an object with
\* a non-blank string name and, when the decision is "existing", whose
\* description is a string if present.
ValidAsSpecified(v) ==
    LET account == Field(v, "account")
        name == Field(account, "name")
    IN  /\ v.t = "object"
        /\ Field(v, "decision") \in {JsTok("existing"), JsTok("create")}
        /\ account.t = "object"
        /\ IsStr(name) /\ Trim(name.s) # <<>>
        /\ Field(v, "decision") = JsTok("existing") =>
              (Field(account, "description") = JsUndef \/ IsStr(Field(account, "description")))
C10_AcceptedIffValid ==
    \A p \in Invocations :
        Completed(p) =>
            ( inv[p].pc = "returned" <=>
                ( /\ CarriesJson(inv[p].completion.text)
                  /\ ValidAsSpecified(TheJson(inv[p].completion.text)) ) )

\* C11: every returned Decision, on a cache miss or a cache hit, is either
\* "existing" with an account id and source "autocomplete",
\* "autocomplete-fallback" or "ai", or "create" with source "ai-new" and no
\* account id.
C11_DecisionShape ==
    \A p \in Invocations :
        inv[p].pc = "returned" =>
            \/ /\ inv[p].ret.decision = JsTok("existing")
               /\ ~IsNullish(inv[p].ret.account.id)
               /\ inv[p].ret.account.source \in
                      {JsTok("autocomplete"), JsTok("autocomplete-fallback"), JsTok("ai")}
            \/ /\ inv[p].ret.decision = JsTok("create")
               /\ inv[p].ret.account.source = JsTok("ai-new")
               /\ inv[p].ret.account.id = JsUndef

\* C12: the normaliser is idempotent: normalising the normalizedText it gave
\* for the description, or for the destination, of a transaction gives that
\* normalizedText again.
C12_NormalizerIdempotent ==
    \A p \in Invocations :
        (Started(p) /\ ~NoDescription(inv[p].txn)) =>
            /\ normalizeText(JsStr(descriptionInfo[inv[p].txn].normalizedText)).normalizedText
                   = descriptionInfo[inv[p].txn].normalizedText
            /\ normalizeText(JsStr(destinationInfo[inv[p].txn].normalizedText)).normalizedText
                   = destinationInfo[inv[p].txn].normalizedText

(***************************************************************************)
(* The matcher variant listed in the README: matchTransaction without a    *)
(* cache, with the first-candidate shortcut before the AI call             *)
(***************************************************************************)
lenientMatch ==
    [t \in Transactions, l \in CandidateLists |->
        attemptDeterministicMatchLenient(l, descriptionInfo[t].tokens,
                                         destinationInfo[t].tokens)]

\* return decision: the README variant stores nothing
ReadmeReturn(p, i, made) ==
    /\ inv' = [i EXCEPT ![p].pc = "returned", ![p].result = made.ref,
                        ![p].ret = DeepValue(made.heap, made.ref)]
    /\ heap' = Collected(made.heap, cache, inv')
    /\ UNCHANGED <<cache, stored, returned>>

\* { decision: "existing", account: { id, name, description ?? "", source } }
ReadmeExisting(p, i, h, account, source) ==
    ReadmeReturn(p, i,
        NewDecision(h, JsTok("existing"),
            [id |-> Field(account, "id"),
             name |-> Field(account, "name"),
             description |-> Coalesce(Field(account, "description"), JsStr(<<>>)),
             source |-> source]))

\* return await this.#createNewAccountWithAi(transaction), up to its await
ReadmeAiCall(p, i, h) ==
    /\ inv' = [i EXCEPT ![p].pc = "ai", ![p].aiCalls = @ + 1]
    /\ heap' = h
    /\ UNCHANGED <<cache, stored, returned>>

\* the same, always escalating to the AI when the deterministic matcher
\* gives null
ReadmeDecideEscalating(p, i, h, candidates, match) ==
    IF match # JsNull
    THEN ReadmeExisting(p, [i EXCEPT ![p].cands = candidates, ![p].detMatch = match],
                        h, match, JsTok("autocomplete"))
    ELSE ReadmeAiCall(p, [i EXCEPT ![p].cands = candidates, ![p].detMatch = match], h)

\* matchTransaction of the README from the return of the collector on
ReadmeDecideWith(p, i, h, candidates, match) ==
    IF match # JsNull
    THEN ReadmeExisting(p, [i EXCEPT ![p].cands = candidates, ![p].detMatch = match],
                        h, match, JsTok("autocomplete"))
    ELSE IF Len(candidates) = 0
    THEN ReadmeAiCall(p, [i EXCEPT ![p].cands = candidates, ![p].detMatch = match], h)
    ELSE \E usable \in {{n \in DOMAIN candidates :
                            ~isPlaceholder(Field(candidates[n], "name"))}} :
             IF usable # {}
             THEN ReadmeExisting(p, [i EXCEPT ![p].cands = candidates,
                                              ![p].detMatch = match],
                                 h, candidates[Min(usable)],
                                 JsTok("autocomplete-fallback"))
             ELSE ReadmeAiCall(p, [i EXCEPT ![p].cands = candidates,
                                            ![p].detMatch = match], h)
ReadmeDecide(p, i, h, candidates) ==
    ReadmeDecideWith(p, i, h, candidates, lenientMatch[i[p].txn, candidates])

\* #collectAutocompleteCandidates of the README: the same loop
ReadmeCollect(p, i, h, from) ==
    IF firefly /\ \E j \in searchable[i[p].txn] : j >= from
    THEN \E pending \in {{j \in searchable[i[p].txn] : j >= from}} :
             /\ inv' = [i EXCEPT ![p].pc = "search", ![p].qi = Min(pending),
                                 ![p].log =
                                     Append(@, [query |-> queries[i[p].txn][Min(pending)],
                                                outcome |-> JsUndef])]
             /\ heap' = h
             /\ UNCHANGED <<cache, stored, returned>>
    ELSE ReadmeDecide(p, i, h, <<>>)

\* responseText.replace(/```json\n?|\n?```/g, '').trim(), then JSON.parse and
\* the structure test: the parsed answer, or JsUndef when something throws
ReadmeUnfenced(chunks) ==
    SelectSeq(chunks, LAMBDA c : c.k \notin {"fencejson", "fence", "ws"})
ReadmeParse(responseText) ==
    IF responseText.t # "text" THEN JsUndef
    ELSE IF ~( /\ Len(ReadmeUnfenced(responseText.chunks)) = 1
               /\ ReadmeUnfenced(responseText.chunks)[1].k = "json" )
    THEN JsUndef
    ELSE IF \/ IsNullish(ReadmeUnfenced(responseText.chunks)[1].v)
            \/ Field(ReadmeUnfenced(responseText.chunks)[1].v, "decision") # JsTok("create")
            \/ Falsy(Field(Field(ReadmeUnfenced(responseText.chunks)[1].v, "account"),
                           "name"))
    THEN JsUndef
    ELSE ReadmeUnfenced(responseText.chunks)[1].v
readmeParsed == [c \in Completions |-> ReadmeParse(c)]

\* the caller calls the README's matchTransaction(t)
ReadmeCall(p, t) ==
    /\ nCalls < MaxCalls
    /\ \A q \in Invocations : ~InFlight(q)
    /\ p = CHOOSE q \in Invocations : inv[q].pc # "returned"
    /\ nCalls' = nCalls + 1
    /\ \E inv1 \in {[q \in Invocations |->
                          IF q = p THEN [Idle EXCEPT !.txn = t] ELSE Kept(inv[q])]} :
           IF MissingDescription(t)
           THEN Throw(p, inv1, Collected(heap, cache, inv1),
                      "Transaction with description is required")
           ELSE ReadmeCollect(p, inv1, Collected(heap, cache, inv1), 1)
    /\ UNCHANGED <<job, probe>>

\* the awaited getExpenseAccountSuggestions call settles
ReadmeSearchReturn(p, outcome) ==
    /\ inv[p].pc = "search"
    /\ \E inv1 \in {[inv EXCEPT ![p].log[Len(inv[p].log)].outcome = outcome]} :
           \E filtered \in {IF outcome.throws THEN <<>> ELSE filteredSuggestions[outcome]} :
               IF ~outcome.throws /\ Len(filtered) > 0
               THEN ReadmeDecide(p, inv1, heap, filtered)
               ELSE ReadmeCollect(p, inv1, heap, inv[p].qi + 1)
    /\ UNCHANGED <<nCalls, job, probe>>

\* the awaited getCompletion call of #createNewAccountWithAi settles
ReadmeAiReturn(p, outcome) ==
    /\ inv[p].pc = "ai"
    /\ \E inv1 \in {[inv EXCEPT ![p].completion = outcome]} :
           IF outcome.throws THEN Throw(p, inv1, heap, "getCompletion failed")
           ELSE \E parsed \in {readmeParsed[outcome.text]} :
                    IF parsed = JsUndef
                    THEN Throw(p, inv1, heap,
                               "AI failed to generate a valid new account structure")
                    ELSE ReadmeReturn(p, inv1,
                             NewDecision(heap, JsTok("create"),
                                 [id |-> Field(Field(parsed, "account"), "id"),
                                  name |-> Field(Field(parsed, "account"), "name"),
                                  description |->
                                      Coalesce(Field(Field(parsed, "account"),
                                                     "description"), JsStr(<<>>)),
                                  source |-> JsTok("ai-new")]))
    /\ UNCHANGED <<nCalls, job, probe>>

ReadmeNext ==
    \/ \E p \in Invocations, t \in Transactions : ReadmeCall(p, t)
    \/ \E p \in Invocations, outcome \in SearchOutcomes : ReadmeSearchReturn(p, outcome)
    \/ \E p \in Invocations, outcome \in AiOutcomes : ReadmeAiReturn(p, outcome)

ReadmeSpec == Init /\ [][ReadmeNext]_vars

(***************************************************************************)
(* The job pipeline: properties                                            *)
(***************************************************************************)
\* the ledger calls of the running job whose operation is in ops
CallsOf(ops) == {i \in DOMAIN job.calls : job.calls[i].op \in ops}
\* matchTransaction failed inside the job
MatchFailed == job.expenseAccount # JsUndef /\ job.expenseAccount.action = "failed"
\* the provider's answer has been taken in, and it names no category of the ledger
NoCategoryDetected == job.handle # "" /\ Falsy(job.categoryId)

\* C13: when matchTransaction fails inside a classification job, the job does
\* not complete as finished and makes no setCategory, createAccount or
\* setAccount call to the ledger.
C13_FailedMatchAppliesNothing ==
    MatchFailed =>
        /\ job.status # "finished"
        /\ job.pc = "failed"
        /\ CallsOf({"setCategory", "createAccount", "setAccount"}) = {}
\* the matcher failed in a job whose category the ledger knows
C13_Witness ==
    /\ MatchFailed
    /\ job.pc = "failed"
    /\ ~Falsy(job.categoryId)

C15_NoCategoryNoUpdate ==
    NoCategoryDetected => CallsOf({"setCategory", "setAccount"}) = {}

(***************************************************************************)
(* The deterministic matcher and the query generator: properties           *)
(***************************************************************************)
\* #attemptDeterministicMatch has been applied to the probe's arguments
MatchRan == probe.pc = "normalized" /\ "match" \in probe.ran
\* #generateQueries has been applied to the probe's arguments
QueriesRan == probe.pc = "normalized" /\ "queries" \in probe.ran
\* the union of the description and destination tokens
TargetTokens ==
    SeqToSet(probe.descriptionInfo.tokens) \cup SeqToSet(probe.destinationInfo.tokens)
\* the number of target tokens the candidate's name shares
Overlap(candidate) ==
    Cardinality(TargetTokens
        \cap SeqToSet(normalizeText(Field(candidate, "name")).tokens))

\* C16: the deterministic matcher returns null for an empty candidate list
\* and, for a list of one candidate, that candidate whatever its token overlap
\* with the transaction, unless its name is a placeholder: then it returns
\* null.
C16_EmptyAndSingleCandidate ==
    MatchRan =>
        /\ Len(probe.candidates) = 0 => probe.match = JsNull
        /\ Len(probe.candidates) = 1 =>
               probe.match =
                   IF isPlaceholder(Field(probe.candidates[1], "name"))
                   THEN JsNull ELSE probe.candidates[1]
\* a single candidate that shares no token with the transaction was returned
C16_Witness ==
    /\ MatchRan
    /\ Len(probe.candidates) = 1
    /\ probe.match = probe.candidates[1]
    /\ TargetTokens # {}
    /\ Overlap(probe.candidates[1]) = 0

\* the threshold for n target tokens: max(1, floor(n/4)) for n > 10,
\* max(1, ceil(n/2)) otherwise
ThresholdFor(n) == IF n > 10 THEN Max(1, n \div 4) ELSE Max(1, CeilHalf(n))
\* the named candidates whose overlap reaches that threshold
Reaching ==
    {i \in DOMAIN probe.candidates :
        /\ ~Falsy(Field(probe.candidates[i], "name"))
        /\ Overlap(probe.candidates[i]) >= ThresholdFor(Cardinality(TargetTokens))}

\* C17: among two or more candidates the overlap threshold is
\* max(1, floor(n/4)) when the transaction has n > 10 target tokens and
\* max(1, ceil(n/2)) when n <= 10: a candidate is returned exactly when one
\* reaches it, so a candidate sharing 2 of 11 target tokens is returned.
C17_OverlapThreshold ==
    (MatchRan /\ Len(probe.candidates) >= 2) =>
        /\ probe.match # JsNull <=> Reaching # {}
        /\ probe.match # JsNull => \E i \in Reaching : probe.match = probe.candidates[i]

\* the strings the query generator is to add, in order
QueriesInOrder ==
    (IF /\ ~Falsy(Field(probe.txn, "destination_name"))
        /\ ~isPlaceholder(Field(probe.txn, "destination_name"))
     THEN <<Trim(Field(probe.txn, "destination_name").s)>> ELSE <<>>)
    \o <<probe.destinationInfo.normalizedText>>
    \o <<probe.descriptionInfo.normalizedText>>
    \o <<JoinSpace(SubSeq(probe.descriptionInfo.tokens, 1,
                          Min({3, Len(probe.descriptionInfo.tokens)})))>>
    \o <<JoinSpace(SubSeq(probe.descriptionInfo.tokens, 1,
                          Min({2, Len(probe.descriptionInfo.tokens)})))>>
    \o SelectSeq(probe.descriptionInfo.tokens, LAMBDA token : Len(token) > 3)
    \o SelectSeq(probe.destinationInfo.tokens, LAMBDA token : Len(token) > 3)

\* C18: generateQueries returns non-empty, pairwise distinct strings in the
\* order of first insertion: trimmed raw destination unless a placeholder,
\* normalized destination, normalized description, first three and first two
\* description tokens joined, the description tokens longer than 3 characters,
\* the destination tokens longer than 3 characters.
C18_QueriesOrderedDistinct ==
    QueriesRan =>
        /\ \A i \in DOMAIN probe.queries : probe.queries[i] # <<>>
        /\ \A i, j \in DOMAIN probe.queries :
               i # j => probe.queries[i] # probe.queries[j]
        /\ probe.queries =
               Unique(SelectSeq(QueriesInOrder, LAMBDA query : query # <<>>), {})
\* a transaction with three description tokens or more, one of whose queries
\* was added twice
C18_Witness ==
    /\ QueriesRan
    /\ Len(probe.descriptionInfo.tokens) >= 3
    /\ Len(probe.queries) >= 5
    /\ Len(probe.queries) < Len(SelectSeq(QueriesInOrder, LAMBDA query : query # <<>>))

\* C19: one matchTransaction invocation calls the completion backend at most
\* once, and when that call throws or its response is rejected the invocation
\* fails without a second completion call.
C19_NoAiRetry ==
    \A p \in Invocations :
        /\ inv[p].aiCalls <= 1
        /\ AiFailed(p) => inv[p].pc = "failed" /\ inv[p].aiCalls = 1
\* the completion call threw after a search had given candidates, and the
\* invocation failed
C19_Witness ==
    \E p \in Invocations :
        /\ inv[p].pc = "failed"
        /\ inv[p].aiCalls = 1
        /\ inv[p].completion # JsUndef
        /\ inv[p].completion.throws
        /\ inv[p].cands # <<>>

\* what a step does to the cache: the entries it held stay as they were, and
\* an entry is added only by an invocation that returns, in that step, the
\* decision the entry holds
CacheStep ==
    /\ \A k \in DOMAIN cache :
           /\ k \in DOMAIN cache'
           /\ DeepValue(heap', cache'[k]) = DeepValue(heap, cache[k])
    /\ \A k \in DOMAIN cache' \ DOMAIN cache :
           \E p \in Invocations :
               /\ inv[p].pc # "returned"
               /\ inv'[p].pc = "returned"
               /\ inv'[p].key = k
               /\ inv'[p].ret = DeepValue(heap', cache'[k])

\* C20: the cache is written only once a complete decision exists: a step in
\* which a search or the completion call settles without a decision, the
\* response is rejected, or nothing more happens leaves the cache with exactly
\* the entries it held, and every entry added holds the decision returned to
\* the caller in that step.
C20_CacheWrittenOnReturnOnly == [][CacheStep]_vars
\* an invocation failed at the completion call while the cache held another
\* invocation's decision, and only that
C20_Witness ==
    \E p, q \in Invocations :
        /\ inv[p].pc = "failed"
        /\ AiFailed(p)
        /\ inv[q].pc = "held"
        /\ DOMAIN cache = {inv[q].key}
        /\ inv[p].key # inv[q].key

\* const minimumMatches = Math.max(1, Math.ceil(targetTokens.size / 2))
minimumMatches == Max(1, CeilHalf(Cardinality(TargetTokens)))

\* C23: among two or more candidates the deterministic matcher returns the
\* first candidate in list order whose overlap with the target tokens reaches
\* the threshold, also when a later candidate shares strictly more tokens.
C23_FirstReachingWins ==
    (MatchRan /\ Len(probe.candidates) >= 2) =>
        LET reaching == {i \in DOMAIN probe.candidates :
                            /\ ~Falsy(Field(probe.candidates[i], "name"))
                            /\ Overlap(probe.candidates[i]) >= minimumMatches}
        IN  probe.match =
                IF reaching = {} THEN JsNull ELSE probe.candidates[Min(reaching)]
\* the first candidate was returned although the second shares more tokens
C23_Witness ==
    /\ MatchRan
    /\ Len(probe.candidates) >= 2
    /\ probe.match = probe.candidates[1]
    /\ Overlap(probe.candidates[2]) > Overlap(probe.candidates[1])

\* the lenient #attemptDeterministicMatch has been applied to the probe's
\* arguments
LenientMatchRan == probe.pc = "normalized" /\ "lenientMatch" \in probe.ran
\* the named candidates of the probe
Named == {i \in DOMAIN probe.candidates : ~Falsy(Field(probe.candidates[i], "name"))}
\* none of them reaches the threshold of the lenient variant
NoneReaches ==
    \A i \in Named :
        Overlap(probe.candidates[i]) < ThresholdFor(Cardinality(TargetTokens))

\* C24: in the lenient matcher variant, when none of two or more candidates
\* reaches the threshold, the matcher returns the earliest candidate with the
\* largest overlap if that overlap is above 0, and null if every candidate
\* has overlap 0.
C24_LenientFallback ==
    (LenientMatchRan /\ Len(probe.candidates) >= 2 /\ NoneReaches) =>
        LET best == {i \in Named :
                        /\ Overlap(probe.candidates[i]) > 0
                        /\ \A j \in Named :
                               Overlap(probe.candidates[j]) <= Overlap(probe.candidates[i])}
        IN  probe.lenientMatch =
                IF best = {} THEN JsNull ELSE probe.candidates[Min(best)]
\* three target tokens, both candidates share one: the first is returned by
\* the fallback
C24_Witness ==
    /\ LenientMatchRan
    /\ Cardinality(TargetTokens) = 3
    /\ Len(probe.candidates) = 2
    /\ NoneReaches
    /\ Overlap(probe.candidates[1]) = 1
    /\ Overlap(probe.candidates[2]) = 1
    /\ probe.lenientMatch = probe.candidates[1]

\* C25: in the matcher variant with the shortcut before the AI call, whenever
\* the collector returns candidates and the deterministic matcher returns
\* null, matchTransaction returns decision "existing" for the first
\* non-placeholder candidate with source "autocomplete-fallback" and makes no
\* completion call; the completion backend is called only when the candidate
\* list is empty.
C25_ShortcutBeforeAi ==
    \A p \in Invocations :
        /\ (inv[p].cands # <<>> /\ inv[p].detMatch = JsNull) =>
               /\ inv[p].pc = "returned"
               /\ inv[p].aiCalls = 0
               /\ inv[p].ret.decision = JsTok("existing")
               /\ inv[p].ret.account.source = JsTok("autocomplete-fallback")
               /\ \E n \in DOMAIN inv[p].cands :
                      /\ ~isPlaceholder(Field(inv[p].cands[n], "name"))
                      /\ \A m \in 1..(n - 1) :
                             isPlaceholder(Field(inv[p].cands[m], "name"))
                      /\ inv[p].ret.account.id = Field(inv[p].cands[n], "id")
                      /\ inv[p].ret.account.name = Field(inv[p].cands[n], "name")
        /\ inv[p].aiCalls > 0 => inv[p].cands = <<>>
\* two candidates that share no token with the transaction: the first one was
\* returned without a completion call
C25_Witness ==
    \E p \in Invocations :
        /\ inv[p].pc = "returned"
        /\ Len(inv[p].cands) = 2
        /\ inv[p].detMatch = JsNull
        /\ inv[p].aiCalls = 0
        /\ inv[p].ret.account.source = JsTok("autocomplete-fallback")

\* C26: every "existing" decision a call returns carries the id of a candidate
\* the search gave: in the invocation that made the decision it is the id of
\* one of the collected candidates, the one with the returned name (compared
\* case-insensitively when the completion named it), and a stored "existing"
\* decision, which is what a cache hit returns, carries the id of a searched
\* candidate, never an id taken from the completion.
SearchedIds ==
    UNION {{Field(c, "id") : c \in Range(o.list)} :
              o \in {x \in SearchOutcomes : ~x.throws}}
C26_ExistingIdFromSearch ==
    /\ \A p \in Invocations :
          ( /\ inv[p].pc = "returned" /\ ~inv[p].cacheHit
            /\ inv[p].ret.decision = JsTok("existing") ) =>
              \E j \in DOMAIN inv[p].cands :
                  /\ inv[p].ret.account.id = Field(inv[p].cands[j], "id")
                  /\ ToLowerCase(inv[p].ret.account.name.s) =
                         ToLowerCase(Field(inv[p].cands[j], "name").s)
                  /\ \E n \in DOMAIN inv[p].log :
                        /\ inv[p].log[n].outcome # JsUndef
                        /\ ~inv[p].log[n].outcome.throws
                        /\ inv[p].cands[j] \in Range(inv[p].log[n].outcome.list)
    /\ \A k \in DOMAIN stored :
          stored[k].decision = JsTok("existing") =>
              /\ stored[k].account.id \in SearchedIds
              /\ stored[k].account.id # JsTok("42")
C26_Witness ==
    \E p \in Invocations :
        /\ inv[p].pc = "returned" /\ ~inv[p].cacheHit
        /\ inv[p].ret.decision = JsTok("existing")
        /\ inv[p].ret.account.source = JsTok("ai")
        /\ inv[p].completion # JsUndef

\* what a step does to an entry the cache holds: the entry stays, it refers to
\* the same Decision object with the same value, and a call for its key that
\* returns in the step returns that value
EntryStep ==
    \A k \in DOMAIN cache :
        /\ k \in DOMAIN cache'
        /\ cache'[k] = cache[k]
        /\ DeepValue(heap', cache'[k]) = DeepValue(heap, cache[k])
        /\ \A p \in Invocations :
              ( /\ inv[p].pc # "returned" /\ inv'[p].pc = "returned"
                /\ inv'[p].key = k ) =>
                  /\ inv'[p].ret = DeepValue(heap, cache[k])
                  /\ inv'[p].cacheWrites = 0

C28_OneSearchPerQuery ==
    \A p \in Invocations :
        Started(p) =>
            LET log == inv[p].log
                qs == queries[inv[p].txn]
            IN  /\ Len(log) <= Len(qs)
                /\ \A n \in DOMAIN log : ~isPlaceholder(JsStr(log[n].query))
                /\ \A n, m \in DOMAIN log : n # m => log[n].query # log[m].query
                /\ \E at \in [DOMAIN log -> DOMAIN qs] :
                      /\ \A n \in DOMAIN log : qs[at[n]] = log[n].query
                      /\ \A n, m \in DOMAIN log : n < m => at[n] < at[m]
                /\ \A n \in DOMAIN log : n < Len(log) => log[n].outcome # JsUndef
                /\ inv[p].pc = "search" =>
                      /\ log # <<>>
                      /\ inv[p].qi \in DOMAIN qs
                      /\ qs[inv[p].qi] = log[Len(log)].query
                /\ (log # <<>> /\ log[Len(log)].outcome # JsUndef) => inv[p].pc # "search"
\* the only search of a call failed, the placeholder query after it was
\* skipped, and the call went on to the completion without candidates
C28_Witness ==
    \E p \in Invocations :
        /\ inv[p].pc \in {"ai", "returned"}
        /\ Len(inv[p].log) = 1
        /\ Len(queries[inv[p].txn]) = 2
        /\ inv[p].log[1].outcome.throws
        /\ isPlaceholder(JsStr(queries[inv[p].txn][2]))
        /\ inv[p].cands = <<>>

\* the ids of the accounts of a search answer whose name is `name`, compared
\* case-insensitively
IdsNamed(list, name) ==
    {Field(list[i], "id") : i \in SameNameAs(list, name)}

\* C29: setAccount is called only with an account id that is neither null nor
\* undefined: for an "existing" decision the id of the decision the matcher
\* returned, for a "create" decision the id the createAccount call just
\* before it resolved with, or, when that call failed with a duplicate-name
\* error, the id of an account of that name the recovery search returned.
C29_SetAccountHasId ==
    \A n \in CallsOf({"setAccount"}) :
        /\ ~IsNullish(job.calls[n].arg)
        /\ job.expenseAccount # JsUndef
        /\ inv[job.handle].pc = "returned"
        /\ IF inv[job.handle].ret.decision = JsTok("existing")
           THEN /\ job.expenseAccount.action = "matched"
                /\ job.calls[n].arg = inv[job.handle].ret.account.id
                /\ CallsOf({"createAccount", "getExpenseAccountSuggestions"}) = {}
           ELSE /\ job.expenseAccount.action = "created"
                /\ n > 1
                /\ \/ /\ job.calls[n - 1].op = "createAccount"
                      /\ ~job.calls[n - 1].outcome.throws
                      /\ job.calls[n].arg = job.calls[n - 1].outcome.id
                   \/ /\ n > 2
                      /\ job.calls[n - 1].op = "getExpenseAccountSuggestions"
                      /\ ~job.calls[n - 1].outcome.throws
                      /\ job.calls[n].arg \in IdsNamed(job.calls[n - 1].outcome.list,
                                                       job.expenseAccount.name)
                      /\ job.calls[n - 2].op = "createAccount"
                      /\ job.calls[n - 2].outcome.throws
\* setAccount was called for a "create" decision that carried no usable id of
\* its own, with the id createAccount gave
C29_Witness ==
    /\ job.pc = "setAccount"
    /\ job.expenseAccount.action = "created"
    /\ job.expenseAccount.accountId = JsNull
    /\ job.calls[Len(job.calls)].arg = JsTok("77")

\* the calls that write to the ledger
Writes == CallsOf({"setCategory", "createAccount", "setAccount"})
Succeeded(n) == job.calls[n].outcome # JsUndef /\ ~job.calls[n].outcome.throws
\* the createAccount call n failed with a duplicate-name error and the search
\* for the account of that name, made next, succeeded
Recovered(n) ==
    /\ job.calls[n].op = "createAccount"
    /\ job.calls[n].outcome # JsUndef
    /\ job.calls[n].outcome.throws
    /\ isDuplicateAccountError(job.calls[n].outcome)
    /\ n < Len(job.calls)
    /\ job.calls[n + 1].op = "getExpenseAccountSuggestions"
    /\ Succeeded(n + 1)

\* C30 as stated, its last clause: a job is marked finished only after every
\* ledger write of the job has succeeded.
C30_FinishedAfterEveryWriteSucceeded ==
    job.status = "finished" => \A n \in Writes : Succeeded(n)

\* C30, amended: the job is in progress from its first step on; every ledger
\* call is made after matchTransaction returned a decision; setCategory, if
\* made, is the first ledger call, and createAccount comes before setAccount;
\* one ledger call is awaited at a time; the job is marked finished only after
\* setCategory (if made) and setAccount (if made) succeeded and createAccount
\* (if made) succeeded or failed with a duplicate-name error that the search
\* by name recovered; a job whose function threw is not marked finished.
C30_JobStepOrder ==
    /\ job.pc # "none" => job.status \in {"in_progress", "finished"}
    /\ job.pc \notin {"none", "finished"} => job.status = "in_progress"
    /\ (job.handle # "" /\ Started(job.handle)) => job.status # "none"
    /\ job.calls # <<>> =>
          /\ job.handle # ""
          /\ inv[job.handle].pc = "returned"
          /\ job.expenseAccount # JsUndef
    /\ \A n \in CallsOf({"setCategory"}) : n = 1
    /\ \A n \in CallsOf({"createAccount"}), m \in CallsOf({"setAccount"}) : n < m
    /\ \A n \in DOMAIN job.calls : n < Len(job.calls) => job.calls[n].outcome # JsUndef
    /\ job.status = "finished" =>
          /\ job.pc = "finished"
          /\ \A n \in Writes : Succeeded(n) \/ Recovered(n)
          /\ \A n \in CallsOf({"setCategory", "setAccount"}) : Succeeded(n)
    /\ job.pc = "failed" => job.status = "in_progress"
\* a finished job whose createAccount call failed: the account was found by
\* name and set after the category was set
C30_Witness ==
    /\ job.status = "finished"
    /\ Len(job.calls) = 4
    /\ job.calls[1].op = "setCategory"
    /\ Recovered(2)
    /\ job.calls[4].op = "setAccount"

(***************************************************************************)
(* matchTransaction called while another call is awaiting: what the class  *)
(* does for a caller that does not run one job at a time                   *)
(***************************************************************************)
\* what the caller keeps of the other invocation: an awaiting one goes on
KeptOrAwaiting(rec) == IF rec.pc \in {"search", "ai"} THEN rec ELSE Kept(rec)

OverlapTransactions ==
    {t \in Transactions : queries[t] # <<>> /\ searchable[t] = DOMAIN queries[t]}
OverlapSearchOutcomes ==
    {o \in SearchOutcomes : o.throws \/ o.list \in {<<CafeRoma>>, <<Shell, Bp>>}}
OverlapAiOutcomes ==
    {o \in AiOutcomes :
        \/ o.throws
        \/ o.text \in
             {Text(<<Prose>>),
              Text(<<Json(Answer(JsTok("create"), Account(LidlName, Groceries)))>>),
              Text(<<Json(Answer(JsTok("existing"), Account(ShellLower, JsNum(5))))>>)}}

\* matchTransaction(t) is called on a handle that awaits nothing
OverlapCall(p, t) ==
    /\ nCalls < MaxCalls
    /\ ~InFlight(p)
    /\ inv[p].pc = "returned" => \A q \in Invocations \ {p} : InFlight(q)
    /\ nCalls' = nCalls + 1
    /\ \E inv1 \in {[q \in Invocations |->
                          IF q = p THEN [Idle EXCEPT !.txn = t]
                          ELSE KeptOrAwaiting(inv[q])]} :
           matchTransaction(p, inv1, Collected(heap, cache, inv1))
    /\ UNCHANGED <<job, probe>>

OverlapNext ==
    \/ \E p \in Invocations, t \in OverlapTransactions : OverlapCall(p, t)
    \/ \E p \in Invocations, outcome \in OverlapSearchOutcomes :
           SearchReturn(p, outcome) /\ UNCHANGED <<job, probe>>
    \/ \E p \in Invocations, outcome \in OverlapAiOutcomes :
           AiReturn(p, outcome) /\ UNCHANGED <<job, probe>>

OverlapSpec == Init /\ [][OverlapNext]_vars

(***************************************************************************)
(* The matcher and a caller whose transactions give several queries, a     *)
(* placeholder among them                                                  *)
(***************************************************************************)
CollectorTransactions == {t \in Transactions : Len(queries[t]) >= 2}

CollectorNext ==
    \/ \E p \in Invocations, t \in CollectorTransactions :
           Call(p, t) /\ UNCHANGED <<job, probe>>
    \/ \E p \in Invocations, outcome \in SearchOutcomes :
           SearchReturn(p, outcome) /\ UNCHANGED <<job, probe>>
    \/ \E p \in Invocations, outcome \in OverlapAiOutcomes :
           AiReturn(p, outcome) /\ UNCHANGED <<job, probe>>

CollectorSpec == Init /\ [][CollectorNext]_vars

\* the invocation made a search or a completion call
Worked(p) == inv[p].log # <<>> \/ inv[p].aiCalls > 0

\* C22 as stated: of two invocations with one cache key that are awaiting at
\* the same time only one has made searches or a completion call, and two
\* decisions returned for one key are equal.
C22_OneWorkerPerKey ==
    \A p, q \in Invocations :
        (p # q /\ inv[p].key = inv[q].key) =>
            /\ (InFlight(p) /\ InFlight(q)) => ~(Worked(p) /\ Worked(q))
            /\ (inv[p].pc = "returned" /\ inv[q].pc \in {"returned", "held"}) =>
                   inv[p].ret = inv[q].ret

\* the invocation p returns in this step
Returns(p) ==
    /\ inv'[p].pc = "returned"
    /\ inv[p].pc # "returned" \/ nCalls' # nCalls
\* what a returning invocation has done: one that found an entry at its start
\* made no call and returns the entry's value; any other made its own calls,
\* returns the decision it made itself, and the entry for its key now holds
\* that decision, whatever the entry held before
OverlapStep ==
    \A p \in Invocations :
        Returns(p) =>
            IF inv'[p].cacheHit
            THEN /\ inv'[p].key \in DOMAIN cache
                 /\ inv'[p].ret = DeepValue(heap, cache[inv'[p].key])
                 /\ ~Worked(p)'
                 /\ cache' = cache
            ELSE /\ Worked(p)'
                 /\ inv'[p].cacheWrites = 1
                 /\ inv'[p].key \in DOMAIN cache'
                 /\ DeepValue(heap', cache'[inv'[p].key]) = inv'[p].ret
                 /\ \A k \in DOMAIN cache \ {inv'[p].key} :
                       DeepValue(heap', cache'[k]) = DeepValue(heap, cache[k])

\* C22, amended: the matcher does not join overlapping invocations: each
\* invocation that found no entry for its key when it started makes its own
\* searches and completion call and stores and returns its own decision, so
\* the entry holds the decision stored last; only an invocation that starts
\* once an entry is stored is served from the cache without any call.
C22_EachCallerWorks == [][OverlapStep]_vars
\* two overlapping invocations with one key returned different decisions, and
\* the cache holds the one returned last
C22_Witness ==
    \E p, q \in Invocations :
        /\ inv[p].pc = "returned" /\ ~inv[p].cacheHit
        /\ inv[q].pc = "returned" /\ ~inv[q].cacheHit
        /\ inv[p].key = inv[q].key
        /\ inv[p].ret # inv[q].ret
        /\ stored[inv[p].key] = inv[p].ret
====
